---- MODULE Spec2Model ----
(***************************************************************************)
(* Read side of go-velocypack: Slice (slice.go) and ObjectIterator         *)
(* (object_iterator.go).                                                   *)
(*                                                                         *)
(* A Slice is a Go byte slice.  Here a Slice is a pair (s, o): s is the    *)
(* backing buffer, a sequence of bytes 0..255, and o is the 0-based        *)
(* position in s where the Slice starts, so Go's s[i] is s[o + i + 1] and  *)
(* len(s) is Len(s) - o.  The nil Slice is the position NilSlice.          *)
(*                                                                         *)
(* Every operation returns a record                                        *)
(*     [err |-> ..., val |-> ..., rd |-> ...]                              *)
(* err is "nil" or the kind of the error ("panic" is a Go run-time panic   *)
(* for an index or slice bound out of range, "assert" a VELOCYPACK_ASSERT   *)
(* that failed in a build with assertions compiled in), val the value      *)
(* returned, and rd the read extent:                                       *)
(* one more than the highest buffer position the operation read (or tried  *)
(* to read), 0 when it read nothing.                                       *)
(***************************************************************************)
EXTENDS Integers, Sequences, FiniteSets, TLC

VARIABLES
    c,                    \* ghost: the container the buffer was encoded from
    buf,                  \* the bytes of the Slice under inspection
    AttributeTranslator,  \* the process-wide translator: "nil" or "dict"
    assertions,           \* the build: TRUE iff VELOCYPACK_ASSERT is compiled in
    loop,                 \* the locals of searchObjectKeyBinary while it runs
    res,                  \* the last call and what it returned
    it,                   \* the ObjectIterator, if one was constructed
    nexts                 \* ghost: the calls of Next on the iterator so far

vars == <<c, buf, AttributeTranslator, assertions, loop, res, it, nexts>>

NilSlice == 0 - 1

\* uint64 values beyond the range the model computes in, and every value that
\* wrapped around below zero, are the one value Huge.
Huge == 2147483646 + 1
wrap(x) == IF x < 0 THEN Huge ELSE x

Ok(v, rd) == [err |-> "nil", val |-> v, rd |-> rd]
Fail(e, rd) == [err |-> e, val |-> NilSlice, rd |-> rd]
Max2(a, b) == IF a >= b THEN a ELSE b

(***************************************************************************)
(* Tag tables (§4.1).                                                      *)
(***************************************************************************)
valueType(h) ==
    IF h = 0 THEN "None"
    ELSE IF h \in 1..9 \/ h = 19 THEN "Array"
    ELSE IF h \in 10..18 \/ h = 20 THEN "Object"
    ELSE IF h = 23 THEN "Illegal"
    ELSE IF h = 24 THEN "Null"
    ELSE IF h \in 25..26 THEN "Bool"
    ELSE IF h = 27 THEN "Double"
    ELSE IF h = 28 THEN "UTCDate"
    ELSE IF h = 29 THEN "External"
    ELSE IF h = 30 THEN "MinKey"
    ELSE IF h = 31 THEN "MaxKey"
    ELSE IF h \in 32..39 THEN "Int"
    ELSE IF h \in 40..47 THEN "UInt"
    ELSE IF h \in 48..63 THEN "SmallInt"
    ELSE IF h \in 64..191 THEN "String"
    ELSE IF h \in 192..199 THEN "Binary"
    ELSE IF h \in 200..215 THEN "BCD"
    ELSE IF h \in 240..255 THEN "Custom"
    ELSE "None"

charPtrLength == 8

fixedTypeLengths(h) ==
    IF h \in {0, 1, 10, 23, 24, 25, 26, 30, 31} THEN 1
    ELSE IF h \in {27, 28} THEN 9
    ELSE IF h = 29 THEN 1 + charPtrLength
    ELSE IF h \in 32..39 THEN 1 + (h - 31)
    ELSE IF h \in 40..47 THEN 1 + (h - 39)
    ELSE IF h \in 48..63 THEN 1
    ELSE IF h \in 64..190 THEN 1 + (h - 64)
    ELSE IF h = 240 THEN 2
    ELSE IF h = 241 THEN 3
    ELSE IF h = 242 THEN 5
    ELSE IF h = 243 THEN 9
    ELSE 0

widthMap(h) ==
    IF h \in {1, 2, 6, 10, 11, 15} THEN 1
    ELSE IF h \in {3, 7, 12, 16} THEN 2
    ELSE IF h \in {4, 8, 13, 17} THEN 4
    ELSE IF h \in {5, 9, 14, 18} THEN 8
    ELSE 0

firstSubMap(h) ==
    IF h \in {1, 10} THEN 1
    ELSE IF h = 2 THEN 2
    ELSE IF h \in {3, 6, 11, 15} THEN 3
    ELSE IF h \in {4, 7, 12, 16} THEN 5
    ELSE IF h \in {5, 8, 9, 13, 14, 17, 18} THEN 9
    ELSE 0

(***************************************************************************)
(* Integer codecs.                                                         *)
(***************************************************************************)
RECURSIVE leValue(_, _, _)
leValue(s, o, w) ==
    LET saturated(hi) == IF hi >= 8388607 THEN Huge ELSE s[o + 1] + 256 * hi
    IN IF w = 0 THEN 0 ELSE saturated(leValue(s, o + 1, w - 1))

\* readIntegerNonEmpty(s[o:], w): the little-endian unsigned of the w bytes at o.
readIntegerNonEmpty(s, o, w) ==
    IF o < 0 \/ o > Len(s) THEN Fail("panic", 0)
    ELSE IF o + w > Len(s) THEN Fail("panic", Len(s) + 1)
    ELSE Ok(leValue(s, o, w), IF w = 0 THEN 0 ELSE o + w)

readIntegerFixed(s, o, w) == readIntegerNonEmpty(s, o, w)

\* readVariableValueLength(s[o:], reverse): 7 bits per byte, the top bit set on
\* every byte but the last; read forwards from o, or backwards from o.
RECURSIVE readVariable(_, _, _, _, _)
readVariable(s, idx, reverse, mult, rd) ==
    LET more(v, rest) == IF rest.err # "nil" THEN rest
                         ELSE Ok((v - 128) * mult + rest.val, rest.rd)
        byte(v, nrd) ==
            IF v < 128 THEN Ok(v * mult, nrd)
            ELSE more(v, readVariable(s, IF reverse THEN idx - 1 ELSE idx + 1,
                                      reverse, mult * 128, nrd))
    IN IF idx < 0 \/ idx >= Len(s) THEN Fail("panic", Max2(rd, idx + 1))
       ELSE byte(s[idx + 1], Max2(rd, idx + 1))

readVariableValueLength(s, o, reverse) == readVariable(s, o, reverse, 1, 0)

RECURSIVE getVariableValueLength(_)
getVariableValueLength(value) ==
    IF value < 128 THEN 1 ELSE 1 + getVariableValueLength(value \div 128)

\* VELOCYPACK_ASSERT(cond) stops the program when cond is false in a build that
\* compiles assertions in, and does nothing in a build that compiles them out.
VELOCYPACK_ASSERT(cond) == cond \/ ~assertions

(***************************************************************************)
(* Slice inspector.                                                        *)
(***************************************************************************)
WithRd(r, rd) == [r EXCEPT !.rd = Max2(r.rd, rd)]

\* head: the first byte, or 0 for an empty (or nil) Slice.
head(s, o) == IF o >= 0 /\ o < Len(s) THEN s[o + 1] ELSE 0
headRd(s, o) == IF o >= 0 /\ o < Len(s) THEN o + 1 ELSE 0

Type(s, o) == valueType(head(s, o))
IsObject(s, o) == Type(s, o) = "Object"
IsArray(s, o) == Type(s, o) = "Array"
IsString(s, o) == Type(s, o) = "String"
IsSmallInt(s, o) == Type(s, o) = "SmallInt"
IsUInt(s, o) == Type(s, o) = "UInt"

\* n + readInteger...(s[1:], w) of the Slice at o
sizeField(s, o, base, w) ==
    LET sized(r) == IF r.err # "nil" THEN WithRd(r, headRd(s, o))
                    ELSE Ok(IF r.val = Huge THEN Huge ELSE base + r.val,
                            Max2(r.rd, headRd(s, o)))
    IN sized(readIntegerNonEmpty(s, o + 1, w))

ByteSize(s, o) ==
    LET sized(h, l, hr, t) ==
            IF l # 0 THEN Ok(l, hr)
            ELSE IF t \in {"Array", "Object"} THEN
                 IF h = 19 \/ h = 20
                 THEN WithRd(readVariableValueLength(s, o + 1, FALSE), hr)
                 ELSE IF h = 1 \/ h = 10 THEN Ok(1, hr)
                 ELSE IF ~VELOCYPACK_ASSERT(h > 0 /\ h <= 14) THEN Fail("assert", hr)
                 ELSE sizeField(s, o, 0, widthMap(h))
            ELSE IF t = "External" THEN Ok(1 + charPtrLength, hr)
            ELSE IF t = "UTCDate" THEN Ok(1 + 8, hr)
            ELSE IF t = "Int" THEN Ok(1 + (h - 31), hr)
            ELSE IF t = "String" THEN
                 IF ~VELOCYPACK_ASSERT(h = 191) THEN Fail("assert", hr)
                 ELSE sizeField(s, o, 1 + 8, 8)
            ELSE IF t = "Binary" THEN
                 IF ~VELOCYPACK_ASSERT(h >= 192 /\ h <= 199) THEN Fail("assert", hr)
                 ELSE sizeField(s, o, 1 + h - 191, h - 191)
            ELSE IF t = "BCD" THEN
                 IF h <= 207
                 THEN IF ~VELOCYPACK_ASSERT(h >= 200 /\ h < 207) THEN Fail("assert", hr)
                      ELSE sizeField(s, o, 1 + h - 199, h - 199)
                 ELSE IF ~VELOCYPACK_ASSERT(h >= 208 /\ h < 215) THEN Fail("assert", hr)
                      ELSE sizeField(s, o, 1 + h - 207, h - 207)
            ELSE IF t = "Custom" THEN
                 IF ~VELOCYPACK_ASSERT(h >= 244) THEN Fail("assert", hr)
                 ELSE IF h \in 244..246 THEN sizeField(s, o, 2, 1)
                 ELSE IF h \in 247..249 THEN sizeField(s, o, 3, 2)
                 ELSE IF h \in 250..252 THEN sizeField(s, o, 5, 4)
                 ELSE sizeField(s, o, 9, 8)
            ELSE Fail("Internal", hr)
    IN sized(head(s, o), fixedTypeLengths(head(s, o)), headRd(s, o),
             valueType(head(s, o)))

\* Next: the Slice that directly follows the Slice at o, s[size:].
SliceNext(s, o) ==
    LET after(size) ==
            IF size.err # "nil" THEN size
            ELSE IF o < 0 \/ o + size.val > Len(s) THEN Fail("panic", size.rd)
            ELSE Ok(o + size.val, size.rd)
    IN after(ByteSize(s, o))

(***************************************************************************)
(* Integer getters.  A uint64 or int64 value is its bit pattern: a         *)
(* sequence of 8 bytes, least significant first.  uint64(x) and int64(x)   *)
(* of a 64-bit x leave the pattern as it is.                               *)
(***************************************************************************)
\* the uint64 of the unsigned little-endian bytes q, Len(q) <= 8
Word(q) == [i \in 1..8 |-> IF i <= Len(q) THEN q[i] ELSE 0]

\* readIntegerNonEmpty(s[o:], w) as the uint64 it returns
readIntegerNonEmpty64(s, o, w) ==
    IF o < 0 \/ o > Len(s) THEN Fail("panic", 0)
    ELSE IF o + w > Len(s) THEN Fail("panic", Len(s) + 1)
    ELSE Ok(Word(SubSeq(s, o + 1, o + w)), IF w = 0 THEN 0 ELSE o + w)

\* a < b of two uint64
unsignedLess(a, b) ==
    \E i \in 1..8 : a[i] < b[i] /\ \A j \in (i + 1)..8 : a[j] = b[j]
\* v < 0 of an int64
isNegative(v) == v[8] >= 128

\* a - b, wrapping around modulo 2^64
RECURSIVE borrow(_, _, _)
borrow(a, b, i) ==
    IF i = 0 THEN 0
    ELSE IF a[i] - b[i] - borrow(a, b, i - 1) < 0 THEN 1 ELSE 0
wordSub(a, b) ==
    [i \in 1..8 |-> (256 + a[i] - b[i] - borrow(a, b, i - 1)) % 256]

\* GetBool: AssertType(Bool), then IsTrue
GetBool(s, o) ==
    IF Type(s, o) # "Bool" THEN Fail("InvalidType", headRd(s, o))
    ELSE Ok(head(s, o) = 26, headRd(s, o))

RECURSIVE GetInt(_, _)

GetSmallInt(s, o) ==
    LET small(h, hr) ==
            IF h >= 48 /\ h <= 57 THEN Ok(Word(<<h - 48>>), hr)
            ELSE IF h >= 58 /\ h <= 63
                 THEN Ok(wordSub(Word(<<h - 58>>), Word(<<6>>)), hr)
            ELSE IF (h >= 32 /\ h <= 39) \/ (h >= 40 /\ h <= 47) THEN GetInt(s, o)
            ELSE Fail("InvalidType", hr)
    IN small(head(s, o), headRd(s, o))

GetUInt_noSignCheck(s, o) ==
    LET uint(h, hr) ==
            IF h = 40 THEN
                 IF o + 1 >= Len(s) THEN Fail("panic", Len(s) + 1)
                 ELSE Ok(Word(<<s[o + 2]>>), o + 2)
            ELSE IF h >= 41 /\ h <= 47
                 THEN WithRd(readIntegerNonEmpty64(s, o + 1, h - 39), hr)
            ELSE IF h >= 32 /\ h <= 39 THEN GetInt(s, o)
            ELSE IF h >= 48 /\ h <= 57 THEN Ok(Word(<<h - 48>>), hr)
            ELSE IF h >= 58 /\ h <= 63 THEN Fail("NumberOutOfRange", hr)
            ELSE Fail("InvalidType", hr)
    IN uint(head(s, o), headRd(s, o))

GetUInt_oneMore(s, o) ==
    LET signed(v) ==
            IF v.err # "nil" THEN v
            ELSE IF isNegative(v.val) THEN Fail("NumberOutOfRange", v.rd)
            ELSE v
        uint(h, hr) ==
            IF h >= 40 /\ h <= 47
            THEN WithRd(readIntegerNonEmpty64(s, o + 1, h - 38), hr)
            ELSE IF h >= 32 /\ h <= 39 THEN signed(GetInt(s, o))
            ELSE IF h >= 48 /\ h <= 57 THEN Ok(Word(<<h - 48>>), hr)
            ELSE IF h >= 58 /\ h <= 63 THEN Fail("NumberOutOfRange", hr)
            ELSE Fail("InvalidType", hr)
    IN uint(head(s, o), headRd(s, o))

GetUInt(s, o) ==
    LET signed(v) ==
            IF v.err # "nil" THEN v
            ELSE IF isNegative(v.val) THEN Fail("NumberOutOfRange", v.rd)
            ELSE v
        uint(h, hr) ==
            IF h = 40 THEN
                 IF o + 1 >= Len(s) THEN Fail("panic", Len(s) + 1)
                 ELSE Ok(Word(<<s[o + 2]>>), o + 2)
            ELSE IF h >= 41 /\ h <= 47
                 THEN WithRd(readIntegerNonEmpty64(s, o + 1, h - 39), hr)
            ELSE IF h >= 32 /\ h <= 39 THEN signed(GetInt(s, o))
            ELSE IF h >= 48 /\ h <= 57 THEN Ok(Word(<<h - 48>>), hr)
            ELSE IF h >= 58 /\ h <= 63 THEN Fail("NumberOutOfRange", hr)
            ELSE Fail("InvalidType", hr)
    IN uint(head(s, o), headRd(s, o))

\* math.MaxInt64 as a uint64
MaxInt64 == [i \in 1..8 |-> IF i = 8 THEN 127 ELSE 255]

GetInt_noSign(s, o) ==
    LET unsigned(v) ==
            IF v.err # "nil" THEN v
            ELSE IF unsignedLess(MaxInt64, v.val) THEN Fail("NumberOutOfRange", v.rd)
            ELSE v
        int(h, hr) ==
            IF h >= 32 /\ h <= 39
            THEN WithRd(readIntegerNonEmpty64(s, o + 1, h - 31), hr)
            ELSE IF h >= 40 /\ h <= 47 THEN unsigned(GetUInt(s, o))
            ELSE IF h >= 48 /\ h <= 63 THEN GetSmallInt(s, o)
            ELSE Fail("InvalidType", hr)
    IN int(head(s, o), headRd(s, o))

GetInt(s, o) ==
    LET \* a < b of two int64
        signedLess(a, b) ==
            IF isNegative(a) # isNegative(b) THEN isNegative(a) ELSE unsignedLess(a, b)
        \* int64(1) << k; Go yields 0 for a shift count of 64 or more
        shiftLeftOne(k) ==
            [i \in 1..8 |-> IF k < 64 /\ i = (k \div 8) + 1 THEN 2 ^ (k % 8) ELSE 0]
        \* v << 1
        shiftLeft1(v) ==
            [i \in 1..8 |->
                ((2 * v[i]) % 256) + (IF i > 1 THEN v[i - 1] \div 128 ELSE 0)]
        narrow(vv, shift, rd) ==
            IF signedLess(vv, shift) THEN Ok(vv, rd)
            ELSE Ok(wordSub(vv, shiftLeft1(shift)), rd)
        signed(h, v, hr) ==
            IF v.err # "nil" THEN WithRd(v, hr)
            ELSE IF h = 39 THEN Ok(v.val, v.rd)
            ELSE narrow(v.val, shiftLeftOne(((((h - 31) * 8) % 256) + 255) % 256), v.rd)
        unsigned(v) ==
            IF v.err # "nil" THEN v
            ELSE IF unsignedLess(MaxInt64, v.val) THEN Fail("NumberOutOfRange", v.rd)
            ELSE v
        int(h, hr) ==
            IF h >= 32 /\ h <= 39
            THEN signed(h, readIntegerNonEmpty64(s, o + 1, h - 31), hr)
            ELSE IF h >= 40 /\ h <= 47 THEN unsigned(GetUInt(s, o))
            ELSE IF h >= 48 /\ h <= 63 THEN GetSmallInt(s, o)
            ELSE Fail("InvalidType", hr)
    IN int(head(s, o), headRd(s, o))

\* the greatest length the platform addresses: the greatest one below Huge
addressLimit == 2147483391

checkOverflow(length) == IF length > addressLimit THEN "Overflow" ELSE "nil"

\* GetString: val is the string, a sequence of bytes.
GetString(s, o) ==
    LET long(length, hr) ==
            IF length.err # "nil" THEN WithRd(length, hr)
            ELSE IF checkOverflow(length.val) # "nil"
                 THEN Fail(checkOverflow(length.val), length.rd)
            ELSE IF o + 1 + 8 + length.val > Len(s) THEN Fail("panic", length.rd)
            ELSE Ok(SubSeq(s, o + 10, o + 9 + length.val), o + 9 + length.val)
        short(length, hr) ==
            IF o + 1 + length > Len(s) THEN Fail("panic", hr)
            ELSE Ok(SubSeq(s, o + 2, o + 1 + length), o + 1 + length)
        string(h, hr) ==
            IF h >= 64 /\ h <= 190 THEN short(h - 64, hr)
            ELSE IF h = 191 THEN long(readIntegerFixed(s, o + 1, 8), hr)
            ELSE Fail("InvalidType", hr)
    IN string(head(s, o), headRd(s, o))

GetStringLength(s, o) ==
    LET long(length, hr) ==
            IF length.err # "nil" THEN WithRd(length, hr)
            ELSE IF checkOverflow(length.val) # "nil"
                 THEN Fail(checkOverflow(length.val), length.rd)
            ELSE length
        string(h, hr) ==
            IF h >= 64 /\ h <= 190 THEN Ok(h - 64, hr)
            ELSE IF h = 191 THEN long(readIntegerFixed(s, o + 1, 8), hr)
            ELSE Fail("InvalidType", hr)
    IN string(head(s, o), headRd(s, o))


\* GetBinary: val is the bytes.  checkOverflow is called and its result dropped;
\* a length beyond the buffer makes the slice expression panic.
GetBinary(s, o) ==
    LET sliced(lengthSize, length, hr) ==
            IF length.err # "nil" THEN WithRd(length, hr)
            ELSE IF length.val = Huge \/ o + 1 + lengthSize + length.val > Len(s)
                 THEN Fail("panic", length.rd)
            ELSE Ok(SubSeq(s, o + 2 + lengthSize, o + 1 + lengthSize + length.val),
                    Max2(length.rd, o + 1 + lengthSize + length.val))
        binary(h, hr) ==
            IF Type(s, o) # "Binary" THEN Fail("InvalidType", hr)
            ELSE IF ~VELOCYPACK_ASSERT(h >= 192 /\ h <= 199) THEN Fail("assert", hr)
            ELSE sliced(h - 191, readIntegerNonEmpty(s, o + 1, h - 191), hr)
    IN binary(head(s, o), headRd(s, o))

GetBinaryLength(s, o) ==
    LET binary(h, hr) ==
            IF Type(s, o) # "Binary" THEN Fail("InvalidType", hr)
            ELSE IF ~VELOCYPACK_ASSERT(h >= 192 /\ h <= 199) THEN Fail("assert", hr)
            ELSE WithRd(readIntegerNonEmpty(s, o + 1, h - 191), hr)
    IN binary(head(s, o), headRd(s, o))

\* bytes.Compare
RECURSIVE bytesCompare(_, _)
bytesCompare(a, b) ==
    IF a = <<>> /\ b = <<>> THEN 0
    ELSE IF a = <<>> THEN 0 - 1
    ELSE IF b = <<>> THEN 1
    ELSE IF Head(a) < Head(b) THEN 0 - 1
    ELSE IF Head(a) > Head(b) THEN 1
    ELSE bytesCompare(Tail(a), Tail(b))

CompareString(s, o, value) ==
    LET compared(k) == IF k.err # "nil" THEN k ELSE Ok(bytesCompare(k.val, value), k.rd)
    IN compared(GetString(s, o))

\* mutant: compares only the first len(k) bytes of value
IsEqualString_prefix(s, o, value) ==
    LET compared(k) ==
            IF k.err # "nil" THEN k
            ELSE Ok(Len(k.val) <= Len(value) /\ SubSeq(value, 1, Len(k.val)) = k.val,
                    k.rd)
    IN compared(GetString(s, o))

IsEqualString(s, o, value) ==
    LET compared(k) == IF k.err # "nil" THEN k ELSE Ok(k.val = value, k.rd)
    IN compared(GetString(s, o))

(***************************************************************************)
(* Attribute translator (§4.8).  "dict" maps id 1 to "a" and id 2 to "b";  *)
(* every other id is unknown.                                              *)
(***************************************************************************)
IDToString(id) ==
    IF id = 1 THEN <<97>> ELSE IF id = 2 THEN <<98>> ELSE <<>>

\* StringSlice(key): a new Slice holding the String key.
StringSlice(key) == <<64 + Len(key)>> \o key

getUIntUnchecked(s, o) ==
    LET h == head(s, o)
    IN IF h >= 40 /\ h <= 47 THEN readIntegerNonEmpty(s, o + 1, h - 39)
       ELSE IF h >= 48 /\ h <= 57 THEN Ok(h - 48, headRd(s, o))
       ELSE Ok(0, headRd(s, o))

\* translateUnchecked: val is the buffer of the translated Slice, <<>> for nil.
translateUnchecked(s, o) ==
    LET named(key, rd) == IF key = <<>> THEN Ok(<<>>, rd) ELSE Ok(StringSlice(key), rd)
        translated(id) == IF id.err # "nil" THEN id
                          ELSE named(IDToString(id.val), id.rd)
    IN translated(getUIntUnchecked(s, o))

\* calls the translator without looking whether there is one
makeKey_noTranslatorCheck(s, o, tr) ==
    LET translated(t) == IF t.err # "nil" THEN t ELSE Ok(<<"translated", t.val>>, t.rd)
    IN IF IsString(s, o) THEN Ok(<<"self", o>>, headRd(s, o))
       ELSE IF IsSmallInt(s, o) \/ IsUInt(s, o) THEN
            IF tr = "nil" THEN Fail("panic", headRd(s, o))
            ELSE translated(translateUnchecked(s, o))
       ELSE Fail("InvalidType", headRd(s, o))

\* makeKey: val is <<"self", o>> when the key is a String (the Slice itself),
\* and <<"translated", b>>, b the buffer of the translated Slice, when it is an
\* integer key.
makeKey(s, o, tr) ==
    LET translated(t) == IF t.err # "nil" THEN t ELSE Ok(<<"translated", t.val>>, t.rd)
    IN IF IsString(s, o) THEN Ok(<<"self", o>>, headRd(s, o))
       ELSE IF IsSmallInt(s, o) \/ IsUInt(s, o) THEN
            IF tr = "nil" THEN Fail("NeedAttributeTranslator", headRd(s, o))
            ELSE translated(translateUnchecked(s, o))
       ELSE Fail("InvalidType", headRd(s, o))

\* k.IsEqualString(attribute) for the val k of makeKey on a key of s
madeKeyIsEqual(s, k, attribute) ==
    IF k[1] = "self" THEN IsEqualString(s, k[2], attribute)
    ELSE IsEqualString(k[2], 0, attribute)

\* key.translateUnchecked().IsEqualString(attribute) and ...CompareString(attribute)
translatedIsEqual(s, o, attribute) ==
    LET translated(t) == IF t.err # "nil" THEN t
                         ELSE WithRd(IsEqualString(t.val, 0, attribute), t.rd)
    IN translated(translateUnchecked(s, o))

translatedCompare(s, o, attribute) ==
    LET translated(t) == IF t.err # "nil" THEN t
                         ELSE WithRd(CompareString(t.val, 0, attribute), t.rd)
    IN translated(translateUnchecked(s, o))

(***************************************************************************)
(* Array and object navigation.                                            *)
(***************************************************************************)
indexEntrySize(h) == widthMap(h)

\* s[p] != 0
probe(s, p) ==
    IF p >= Len(s) THEN Fail("panic", p + 1) ELSE Ok(s[p + 1] # 0, p + 1)

\* mutant: takes the smallest position without looking for padding
findDataOffset_noPadding(s, h) ==
    IF ~VELOCYPACK_ASSERT(h <= 18) THEN Fail("assert", 0)
    ELSE Ok(firstSubMap(h), 0)

\* takes the first nonzero byte, also below firstSubMap[head]
findDataOffset_firstNonzero(s, h) ==
    LET probed(p2, p3, p5) ==
            IF ~VELOCYPACK_ASSERT(h <= 18) THEN Fail("assert", 0)
            ELSE IF p2.err # "nil" THEN p2
            ELSE IF p2.val THEN Ok(2, p2.rd)
            ELSE IF p3.err # "nil" THEN WithRd(p3, p2.rd)
            ELSE IF p3.val THEN Ok(3, Max2(p2.rd, p3.rd))
            ELSE IF p5.err # "nil" THEN WithRd(p5, Max2(p2.rd, p3.rd))
            ELSE IF p5.val THEN Ok(5, Max2(p2.rd, Max2(p3.rd, p5.rd)))
            ELSE Ok(9, Max2(p2.rd, Max2(p3.rd, p5.rd)))
    IN probed(probe(s, 2), probe(s, 3), probe(s, 5))

findDataOffset(s, h) ==
    LET fsm == firstSubMap(h)
        probed(p2, p3, p5) ==
            IF ~VELOCYPACK_ASSERT(h <= 18) THEN Fail("assert", 0)
            ELSE IF p2.err # "nil" THEN p2
            ELSE IF p2.val THEN Ok(2, p2.rd)
            ELSE IF p3.err # "nil" THEN WithRd(p3, p2.rd)
            ELSE IF p3.val THEN Ok(3, Max2(p2.rd, p3.rd))
            ELSE IF p5.err # "nil" THEN WithRd(p5, Max2(p2.rd, p3.rd))
            ELSE IF p5.val THEN Ok(5, Max2(p2.rd, Max2(p3.rd, p5.rd)))
            ELSE Ok(9, Max2(p2.rd, Max2(p3.rd, p5.rd)))
    IN probed(IF fsm <= 2 THEN probe(s, 2) ELSE Ok(FALSE, 0),
              IF fsm <= 3 THEN probe(s, 3) ELSE Ok(FALSE, 0),
              IF fsm <= 5 THEN probe(s, 5) ELSE Ok(FALSE, 0))

\* the member count of a container without index table (heads 0x02..0x05):
\* (end - dataOffset) / ByteSize(first member); val is <<n, dataOffset>>
countByFirstMember(s, h, end, rd) ==
    LET counted(d, bs, rd2) ==
            IF bs.err # "nil" THEN WithRd(bs, rd2)
            ELSE IF bs.val = 0 THEN Fail("Internal", rd2)
            ELSE Ok(<<wrap(end - d.val) \div bs.val, d.val>>, rd2)
        sized(d, bs) == counted(d, bs, Max2(rd, Max2(d.rd, bs.rd)))
        first(d) ==
            IF d.err # "nil" THEN WithRd(d, rd)
            ELSE IF d.val > Len(s) THEN Fail("panic", Max2(rd, d.rd))
            ELSE sized(d, ByteSize(s, d.val))
    IN first(findDataOffset(s, h))

\* the trailing count of a compact container that ends at end
compactCount(s, end, rd) ==
    IF end - 1 < 0 \/ end - 1 > Len(s) THEN Fail("panic", rd)
    ELSE WithRd(readVariableValueLength(s, end - 1, TRUE), rd)

Length_countAtHead(s) ==
    LET h == head(s, 0)
        hr == headRd(s, 0)
        offsetSize == indexEntrySize(h)
        counted(n) == IF n.err # "nil" THEN n ELSE Ok(n.val[1], n.rd)
        ended(end, cend) ==
            IF ~IsArray(s, 0) /\ ~IsObject(s, 0) THEN Fail("InvalidType", hr)
            ELSE IF h = 1 \/ h = 10 THEN Ok(0, hr)
            ELSE IF h = 19 \/ h = 20 THEN
                 IF cend.err # "nil" THEN WithRd(cend, hr)
                 ELSE compactCount(s, cend.val, Max2(hr, cend.rd))
            ELSE IF ~VELOCYPACK_ASSERT(offsetSize > 0) THEN Fail("assert", hr)
            ELSE IF end.err # "nil" THEN WithRd(end, hr)
            ELSE IF h <= 5 THEN counted(countByFirstMember(s, h, end.val, end.rd))
            ELSE WithRd(readIntegerNonEmpty(s, offsetSize + 1, offsetSize), end.rd)
    IN ended(readIntegerNonEmpty(s, 1, offsetSize),
             readVariableValueLength(s, 1, FALSE))

Length(s) ==
    LET h == head(s, 0)
        hr == headRd(s, 0)
        offsetSize == indexEntrySize(h)
        counted(n) == IF n.err # "nil" THEN n ELSE Ok(n.val[1], n.rd)
        ended(end, cend) ==
            IF ~IsArray(s, 0) /\ ~IsObject(s, 0) THEN Fail("InvalidType", hr)
            ELSE IF h = 1 \/ h = 10 THEN Ok(0, hr)
            ELSE IF h = 19 \/ h = 20 THEN
                 IF cend.err # "nil" THEN WithRd(cend, hr)
                 ELSE compactCount(s, cend.val, Max2(hr, cend.rd))
            ELSE IF ~VELOCYPACK_ASSERT(offsetSize > 0) THEN Fail("assert", hr)
            ELSE IF end.err # "nil" THEN WithRd(end, hr)
            ELSE IF h <= 5 THEN counted(countByFirstMember(s, h, end.val, end.rd))
            ELSE IF offsetSize < 8
                 THEN WithRd(readIntegerNonEmpty(s, offsetSize + 1, offsetSize), end.rd)
            ELSE WithRd(readIntegerNonEmpty(s, end.val - offsetSize, offsetSize), end.rd)
    IN ended(readIntegerNonEmpty(s, 1, offsetSize),
             readVariableValueLength(s, 1, FALSE))

\* the walk of getNthOffsetFromCompact from member current at offset
RECURSIVE compactWalk(_, _, _, _, _, _)
compactWalk(s, h, offset, current, index, rd) ==
    LET overValue(k, v) ==
            IF v.err # "nil" THEN WithRd(v, Max2(rd, k.rd))
            ELSE compactWalk(s, h, offset + k.val + v.val, current + 1,
                             index, Max2(rd, Max2(k.rd, v.rd)))
        overKey(k) ==
            IF k.err # "nil" THEN WithRd(k, rd)
            ELSE IF h # 20
                 THEN compactWalk(s, h, offset + k.val, current + 1, index,
                                  Max2(rd, k.rd))
            ELSE IF offset + k.val > Len(s) THEN Fail("panic", Max2(rd, k.rd))
            ELSE overValue(k, ByteSize(s, offset + k.val))
    IN IF current = index THEN Ok(offset, rd)
       ELSE IF offset > Len(s) THEN Fail("panic", rd)
       ELSE overKey(ByteSize(s, offset))

\* mutant: index > n instead of index >= n
getNthOffsetFromCompact_offByOne(s, index) ==
    LET counted(end, n) ==
            IF end.err # "nil" THEN end
            ELSE IF n.err # "nil" THEN n
            ELSE IF index > n.val THEN Fail("IndexOutOfBounds", n.rd)
            ELSE compactWalk(s, head(s, 0), 1 + getVariableValueLength(end.val), 0,
                             index, Max2(n.rd, headRd(s, 0)))
        ended(end) == counted(end, compactCount(s, end.val, end.rd))
    IN ended(readVariableValueLength(s, 1, FALSE))

getNthOffsetFromCompact(s, index) ==
    LET counted(end, n) ==
            IF end.err # "nil" THEN end
            ELSE IF n.err # "nil" THEN n
            ELSE IF index >= n.val THEN Fail("IndexOutOfBounds", n.rd)
            ELSE compactWalk(s, head(s, 0), 1 + getVariableValueLength(end.val), 0,
                             index, Max2(n.rd, headRd(s, 0)))
        ended(end) == counted(end, compactCount(s, end.val, end.rd))
    IN ended(readVariableValueLength(s, 1, FALSE))

getNthOffset(s, index) ==
    LET h == head(s, 0)
        hr == headRd(s, 0)
        offsetSize == indexEntrySize(h)
        \* member index of a container whose members all have the size of the first
        sized(d, bs, rd1) ==
            IF bs.err # "nil" THEN WithRd(bs, rd1)
            ELSE Ok(d.val + index * bs.val, Max2(rd1, bs.rd))
        first(d, rd1) ==
            IF d.err # "nil" THEN WithRd(d, rd1)
            ELSE IF d.val > Len(s) THEN Fail("panic", rd1)
            ELSE sized(d, ByteSize(s, d.val), rd1)
        single(d, n) == first(d, Max2(hr, Max2(n.rd, d.rd)))
        \* the number of items read from the head or the end: val is <<n, 0>>
        items(r, end) == IF r.err # "nil" THEN WithRd(r, end.rd)
                         ELSE Ok(<<r.val, 0>>, Max2(r.rd, end.rd))
        \* n.val is <<n, dataOffset>>
        counted(end, n) ==
            IF ~VELOCYPACK_ASSERT(IsArray(s, 0) \/ IsObject(s, 0)) THEN Fail("assert", hr)
            ELSE IF h = 19 \/ h = 20 THEN getNthOffsetFromCompact(s, index)
            ELSE IF h = 1 \/ h = 10 THEN Fail("IndexOutOfBounds", hr)
            ELSE IF end.err # "nil" THEN WithRd(end, hr)
            ELSE IF n.err # "nil" THEN WithRd(n, hr)
            ELSE IF index >= n.val[1] THEN Fail("IndexOutOfBounds", Max2(hr, n.rd))
            ELSE IF h <= 5 \/ n.val[1] = 1
                 THEN single(IF n.val[2] = 0 THEN findDataOffset(s, h)
                             ELSE Ok(n.val[2], 0), n)
            ELSE LET offsetSize8Or0 == IF offsetSize = 8 THEN 8 ELSE 0
                     ieBase == end.val - n.val[1] * offsetSize + index * offsetSize
                               - offsetSize8Or0
                 IN WithRd(readIntegerNonEmpty(s, ieBase, offsetSize), Max2(hr, n.rd))
        ended(end) ==
            counted(end,
                    IF h <= 5 THEN countByFirstMember(s, h, end.val, end.rd)
                    ELSE items(IF offsetSize < 8
                               THEN readIntegerNonEmpty(s, 1 + offsetSize, offsetSize)
                               ELSE readIntegerNonEmpty(s, end.val - offsetSize,
                                                        offsetSize), end))
    IN ended(readIntegerNonEmpty(s, 1, offsetSize))

\* Slice(s[offset:]) of an offset result
sliceAt(s, r) ==
    IF r.err # "nil" THEN r
    ELSE IF r.val < 0 \/ r.val > Len(s) THEN Fail("panic", r.rd)
    ELSE r

getNth(s, index) ==
    IF ~VELOCYPACK_ASSERT(IsArray(s, 0)) THEN Fail("assert", headRd(s, 0))
    ELSE sliceAt(s, getNthOffset(s, index))

getNthKey(s, index, translate, tr) ==
    LET keyed(result) ==
            IF ~VELOCYPACK_ASSERT(Type(s, 0) = "Object") THEN Fail("assert", headRd(s, 0))
            ELSE IF result.err # "nil" THEN result
            ELSE IF translate THEN WithRd(makeKey(s, result.val, tr), result.rd)
            ELSE result
    IN keyed(sliceAt(s, getNthOffset(s, index)))

getNthValue(s, index, tr) ==
    LET after(key) == IF key.err # "nil" THEN key
                      ELSE WithRd(SliceNext(s, key.val), key.rd)
    IN after(getNthKey(s, index, FALSE, tr))

At(s, index) ==
    IF ~IsArray(s, 0) THEN Fail("InvalidType", headRd(s, 0))
    ELSE getNth(s, index)

\* goes for the key without looking at the type
KeyAt_unchecked(s, index, translate, tr) == getNthKey(s, index, translate, tr)

KeyAt(s, index, translate, tr) ==
    IF ~IsObject(s, 0) THEN Fail("InvalidType", headRd(s, 0))
    ELSE getNthKey(s, index, translate, tr)

\* mutant: skips the head byte of the key, not the whole key
ValueAt_skipHead(s, index, tr) ==
    LET after(key) ==
            IF ~IsObject(s, 0) THEN Fail("InvalidType", headRd(s, 0))
            ELSE IF key.err # "nil" THEN key
            ELSE IF key.val + 1 > Len(s) THEN Fail("panic", key.rd)
            ELSE Ok(key.val + 1, key.rd)
    IN after(getNthKey(s, index, FALSE, tr))

ValueAt(s, index, tr) ==
    LET after(key, byteSize) ==
            IF ~IsObject(s, 0) THEN Fail("InvalidType", headRd(s, 0))
            ELSE IF key.err # "nil" THEN key
            ELSE IF byteSize.err # "nil" THEN WithRd(byteSize, key.rd)
            ELSE IF key.val + byteSize.val > Len(s)
                 THEN Fail("panic", Max2(key.rd, byteSize.rd))
            ELSE Ok(key.val + byteSize.val, Max2(key.rd, byteSize.rd))
        keyed(key) == after(key, ByteSize(s, key.val))
    IN keyed(getNthKey(s, index, FALSE, tr))

(***************************************************************************)
(* ObjectIterator: [position, size, current], current a position in the    *)
(* buffer of s or NilSlice.                                                *)
(***************************************************************************)
NoIterator == [position |-> 0, size |-> 0, current |-> NilSlice, live |-> FALSE]
Iterator(p, sz, cur) == [position |-> p, size |-> sz, current |-> cur, live |-> TRUE]

IsPanic(e) == e \in {"panic", "assert"}

\* val is the iterator
NewObjectIterator(s, tr) ==
    LET made(size, k) ==
            IF ~IsObject(s, 0)
            THEN [Fail("InvalidType", headRd(s, 0)) EXCEPT !.val = NoIterator]
            ELSE IF size.err # "nil" THEN [size EXCEPT !.val = NoIterator]
            ELSE IF size.val > 0 THEN
                 IF head(s, 0) = 20 THEN
                      IF IsPanic(k.err) THEN [WithRd(k, size.rd) EXCEPT !.val = NoIterator]
                      ELSE Ok(Iterator(0, size.val,
                                       IF k.err = "nil" THEN k.val ELSE NilSlice),
                              Max2(size.rd, k.rd))
                 ELSE [Fail("TODO", size.rd) EXCEPT !.val = NoIterator]
            ELSE Ok(Iterator(0, size.val, NilSlice), size.rd)
    IN made(Length(s), KeyAt(s, 0, FALSE, tr))

IsValid(i) == i.position < i.size

IsFirst(i) == i.position = 0

Key(s, i, translate, tr) ==
    IF i.position >= i.size THEN Fail("IndexOutOfBounds", 0)
    ELSE IF i.current # NilSlice THEN
         IF translate THEN makeKey(s, i.current, tr) ELSE Ok(i.current, 0)
    ELSE getNthKey(s, i.position, translate, tr)

Value(s, i, tr) ==
    IF i.position >= i.size THEN Fail("IndexOutOfBounds", 0)
    ELSE IF i.current # NilSlice THEN SliceNext(s, i.current)
    ELSE getNthValue(s, i.position, tr)

\* mutant: past the end the position starts over at 0
IterNext_startOver(s, i) ==
    LET pos == IF i.position >= i.size THEN 0 ELSE i.position + 1
        overValue(k, v) ==
            IF pos < i.size /\ i.current # NilSlice THEN
                 IF k.err # "nil"
                 THEN [err |-> k.err, val |-> Iterator(pos, i.size, NilSlice), rd |-> k.rd]
                 ELSE IF v.err # "nil"
                 THEN [err |-> v.err, val |-> Iterator(pos, i.size, NilSlice),
                       rd |-> Max2(k.rd, v.rd)]
                 ELSE Ok(Iterator(pos, i.size, v.val), Max2(k.rd, v.rd))
            ELSE Ok(Iterator(pos, i.size, NilSlice), 0)
        overKey(k) == overValue(k, SliceNext(s, k.val))
    IN overKey(SliceNext(s, i.current))

\* mutant: skips over the key only
IterNext_keyOnly(s, i) ==
    LET pos == i.position + 1
        overKey(k) ==
            IF pos < i.size /\ i.current # NilSlice THEN
                 IF k.err # "nil"
                 THEN [err |-> k.err, val |-> Iterator(pos, i.size, NilSlice), rd |-> k.rd]
                 ELSE Ok(Iterator(pos, i.size, k.val), k.rd)
            ELSE Ok(Iterator(pos, i.size, NilSlice), 0)
    IN overKey(SliceNext(s, i.current))

\* val is the iterator after the call
IterNext(s, i) ==
    LET pos == i.position + 1
        overValue(k, v) ==
            IF pos < i.size /\ i.current # NilSlice THEN
                 IF k.err # "nil"
                 THEN [err |-> k.err, val |-> Iterator(pos, i.size, NilSlice), rd |-> k.rd]
                 ELSE IF v.err # "nil"
                 THEN [err |-> v.err, val |-> Iterator(pos, i.size, NilSlice),
                       rd |-> Max2(k.rd, v.rd)]
                 ELSE Ok(Iterator(pos, i.size, v.val), Max2(k.rd, v.rd))
            ELSE Ok(Iterator(pos, i.size, NilSlice), 0)
        overKey(k) == overValue(k, SliceNext(s, k.val))
    IN overKey(SliceNext(s, i.current))

(***************************************************************************)
(* Attribute lookup.                                                       *)
(***************************************************************************)
SortedSearchEntriesThreshold == 4

\* the loop of getFromCompactObject, from the iterator i on
RECURSIVE compactLoop(_, _, _, _, _)
compactLoop(s, attribute, tr, i, rd) ==
    LET turn(key, k, eq, nx) ==
            IF key.err # "nil" THEN WithRd(key, rd)
            ELSE IF k.err # "nil" THEN WithRd(k, rd)
            ELSE IF eq.err # "nil" THEN WithRd(eq, Max2(rd, k.rd))
            ELSE IF eq.val
                 THEN WithRd(SliceNext(s, key.val), Max2(rd, Max2(k.rd, eq.rd)))
            ELSE IF nx.err # "nil"
                 THEN Fail(nx.err, Max2(rd, Max2(k.rd, Max2(eq.rd, nx.rd))))
            ELSE compactLoop(s, attribute, tr, nx.val,
                             Max2(rd, Max2(k.rd, Max2(eq.rd, nx.rd))))
        made(key, k) == turn(key, k, madeKeyIsEqual(s, k.val, attribute), IterNext(s, i))
        keyed(key) == made(key, makeKey(s, key.val, tr))
    IN IF ~IsValid(i) THEN Ok(NilSlice, rd)
       ELSE keyed(Key(s, i, FALSE, tr))

getFromCompactObject(s, attribute, tr) ==
    LET iterate(i) == IF i.err # "nil" THEN Fail(i.err, i.rd)
                      ELSE compactLoop(s, attribute, tr, i.val, i.rd)
    IN iterate(NewObjectIterator(s, tr))

\* the Slice that follows the key at position key, once the key matched
valueAfter(s, key, rd) == WithRd(SliceNext(s, key), rd)

\* the loop of searchObjectKeyLinear, from index on
RECURSIVE linearLoop(_, _, _, _, _, _, _, _)
linearLoop(s, attribute, ieBase, offsetSize, n, tr, index, rd) ==
    LET offset == ieBase + index * offsetSize
        turn(key, eq, rd1, rd2) ==
            IF key.err # "nil" THEN WithRd(key, rd)
            ELSE IF ~IsString(s, key.val) /\ ~IsSmallInt(s, key.val)
                    /\ ~IsUInt(s, key.val)
                 THEN Ok(NilSlice, Max2(rd1, headRd(s, key.val)))
            ELSE IF ~IsString(s, key.val) /\ tr = "nil"
                 THEN Fail("NeedAttributeTranslator", Max2(rd1, headRd(s, key.val)))
            ELSE IF eq.err # "nil" THEN WithRd(eq, rd2)
            ELSE IF ~eq.val
                 THEN linearLoop(s, attribute, ieBase, offsetSize, n, tr, index + 1, rd2)
            ELSE valueAfter(s, key.val, rd2)
        compared(key, eq) ==
            turn(key, eq, Max2(rd, key.rd),
                 Max2(Max2(rd, key.rd), Max2(eq.rd, headRd(s, key.val))))
        keyed(key) ==
            compared(key, IF IsString(s, key.val)
                          THEN IsEqualString(s, key.val, attribute)
                          ELSE translatedIsEqual(s, key.val, attribute))
    IN IF index >= n THEN Ok(NilSlice, rd)
       ELSE keyed(sliceAt(s, readIntegerNonEmpty(s, offset, offsetSize)))

searchObjectKeyLinear(s, attribute, ieBase, offsetSize, n, tr) ==
    linearLoop(s, attribute, ieBase, offsetSize, n, tr, 0, 0)

\* one turn of the loop of searchObjectKeyBinary is a probe and a narrowing.
\* the first half of a turn: the key of table entry index is read and compared
\* with attribute.  done with the result out, or not done with the sign cmp of
\* the comparison; out.rd is what the probe read.
binaryProbe(s, attribute, ieBase, offsetSize, tr, index) ==
    LET offset == ieBase + index * offsetSize
        found(key, keySize, rd2) ==
            IF keySize.err # "nil" THEN WithRd(keySize, rd2)
            ELSE IF key.val + keySize.val > Len(s)
                 THEN Fail("panic", Max2(rd2, keySize.rd))
            ELSE Ok(key.val + keySize.val, Max2(rd2, keySize.rd))
        stop(out) == [done |-> TRUE, out |-> out, cmp |-> 0]
        turn(key, cmp, rd1, rd2) ==
            IF key.err # "nil" THEN stop(key)
            ELSE IF ~IsString(s, key.val) /\ ~IsSmallInt(s, key.val)
                    /\ ~IsUInt(s, key.val)
                 THEN stop(Ok(NilSlice, rd1))
            ELSE IF ~IsString(s, key.val) /\ tr = "nil"
                 THEN stop(Fail("NeedAttributeTranslator", rd1))
            ELSE IF cmp.err # "nil" THEN stop(WithRd(cmp, rd2))
            ELSE IF cmp.val = 0 THEN stop(found(key, ByteSize(s, key.val), rd2))
            ELSE [done |-> FALSE, out |-> Ok(NilSlice, rd2), cmp |-> cmp.val]
        compared(key, cmp, rd1) == turn(key, cmp, rd1, Max2(rd1, cmp.rd))
        keyed(key) ==
            compared(key,
                     IF IsString(s, key.val)
                     THEN CompareString(s, key.val, attribute)
                     ELSE translatedCompare(s, key.val, attribute),
                     Max2(key.rd, headRd(s, key.val)))
    IN keyed(sliceAt(s, readIntegerFixed(s, offset, offsetSize)))

\* takes index - 1 without looking whether index is 0
binaryNarrow_noZeroGuard(p, l, r, index, rd) ==
    LET Done(out) ==
            [done |-> TRUE, out |-> out, l |-> 0, r |-> 0, index |-> 0, rd |-> out.rd]
        Again(nl, nr, nindex, rd2) ==
            [done |-> FALSE, out |-> Ok(NilSlice, rd2), l |-> nl, r |-> nr,
             index |-> nindex, rd |-> rd2]
        narrowed(nl, nr, rd2) ==
            IF nr < nl THEN Done(Ok(NilSlice, rd2))
            ELSE Again(nl, nr, nl + ((nr - nl) \div 2), rd2)
    IN IF p.done THEN Done(WithRd(p.out, rd))
       ELSE narrowed(IF p.cmp > 0 THEN l ELSE index + 1,
                     IF p.cmp > 0 THEN wrap(index - 1) ELSE r, Max2(rd, p.out.rd))

\* the second half of a turn, after the probe p: done with the result out, or
\* not done with the narrowed l and r and the new midpoint index; index - 1 is
\* a uint64 subtraction
binaryNarrow(p, l, r, index, rd) ==
    LET Done(out) ==
            [done |-> TRUE, out |-> out, l |-> 0, r |-> 0, index |-> 0, rd |-> out.rd]
        Again(nl, nr, nindex, rd2) ==
            [done |-> FALSE, out |-> Ok(NilSlice, rd2), l |-> nl, r |-> nr,
             index |-> nindex, rd |-> rd2]
        narrowed(nl, nr, rd2) ==
            IF nr < nl THEN Done(Ok(NilSlice, rd2))
            ELSE Again(nl, nr, nl + ((nr - nl) \div 2), rd2)
    IN IF p.done THEN Done(WithRd(p.out, rd))
       ELSE IF p.cmp > 0 /\ index = 0 THEN Done(Ok(NilSlice, Max2(rd, p.out.rd)))
       ELSE narrowed(IF p.cmp > 0 THEN l ELSE index + 1,
                     IF p.cmp > 0 THEN wrap(index - 1) ELSE r, Max2(rd, p.out.rd))

\* the loop: turn after turn until one is done
RECURSIVE binaryLoop(_, _, _, _, _, _, _, _, _)
binaryLoop(s, attribute, ieBase, offsetSize, tr, l, r, index, rd) ==
    LET next(t) ==
            IF t.done THEN t.out
            ELSE binaryLoop(s, attribute, ieBase, offsetSize, tr, t.l, t.r, t.index, t.rd)
    IN next(binaryNarrow(binaryProbe(s, attribute, ieBase, offsetSize, tr, index),
                         l, r, index, rd))

\* mutant: the right bound starts one entry short
searchObjectKeyBinary_shortRight(s, attribute, ieBase, n, offsetSize, tr) ==
    IF ~VELOCYPACK_ASSERT(n > 0) THEN Fail("assert", 0)
    ELSE IF n = 1 THEN Ok(NilSlice, 0)
    ELSE binaryLoop(s, attribute, ieBase, offsetSize, tr, 0, n - 2, (n - 2) \div 2, 0)

searchObjectKeyBinary(s, attribute, ieBase, n, offsetSize, tr) ==
    IF ~VELOCYPACK_ASSERT(n > 0) THEN Fail("assert", 0)
    ELSE binaryLoop(s, attribute, ieBase, offsetSize, tr, 0, n - 1, (n - 1) \div 2, 0)

\* mutant: forgets the count stored behind the table of an 8-byte-wide object
objectTable_noTrailingCount(s, h) ==
    LET offsetSize == indexEntrySize(h)
        counted(end, n) ==
            IF end.err # "nil" THEN end
            ELSE IF n.err # "nil" THEN WithRd(n, end.rd)
            ELSE Ok(<<n.val, end.val - n.val * offsetSize>>, Max2(end.rd, n.rd))
        ended(end) ==
            counted(end, IF offsetSize < 8
                         THEN readIntegerNonEmpty(s, 1 + offsetSize, offsetSize)
                         ELSE readIntegerNonEmpty(s, end.val - offsetSize, offsetSize))
    IN ended(readIntegerNonEmpty(s, 1, offsetSize))

\* the table of an object with index table: val is <<n, ieBase>>
objectTable(s, h) ==
    LET offsetSize == indexEntrySize(h)
        counted(end, n) ==
            IF end.err # "nil" THEN end
            ELSE IF n.err # "nil" THEN WithRd(n, end.rd)
            ELSE Ok(<<n.val, IF offsetSize < 8 THEN end.val - n.val * offsetSize
                             ELSE end.val - n.val * offsetSize - offsetSize>>,
                    Max2(end.rd, n.rd))
        ended(end) ==
            counted(end, IF offsetSize < 8
                         THEN readIntegerNonEmpty(s, 1 + offsetSize, offsetSize)
                         ELSE readIntegerNonEmpty(s, end.val - offsetSize, offsetSize))
    IN ended(readIntegerNonEmpty(s, 1, offsetSize))

\* the single-entry shortcut of Get (n == 1)
getSingle(s, h, attribute, tr, rd) ==
    LET compared(d, key, eq, rd1) ==
            IF d.err # "nil" THEN WithRd(d, rd)
            ELSE IF key > Len(s) THEN Fail("panic", Max2(rd, d.rd))
            ELSE IF ~IsString(s, key) /\ ~IsSmallInt(s, key) /\ ~IsUInt(s, key)
                 THEN Ok(NilSlice, rd1)
            ELSE IF ~IsString(s, key) /\ tr = "nil"
                 THEN Fail("NeedAttributeTranslator", rd1)
            ELSE IF eq.err # "nil" THEN WithRd(eq, rd1)
            ELSE IF eq.val THEN valueAfter(s, key, Max2(rd1, eq.rd))
            ELSE Ok(NilSlice, Max2(rd1, eq.rd))
        keyed(d, key) ==
            compared(d, key,
                     IF IsString(s, key) THEN IsEqualString(s, key, attribute)
                     ELSE translatedIsEqual(s, key, attribute),
                     Max2(rd, Max2(d.rd, headRd(s, key))))
        first(d) == keyed(d, d.val)
    IN first(findDataOffset(s, h))

\* Get: val is the position of the value, NilSlice for the None-Slice
Get(s, attribute, tr) ==
    LET h == head(s, 0)
        hr == headRd(s, 0)
        offsetSize == indexEntrySize(h)
        search(t, n, ieBase, rd) ==
            IF ~IsObject(s, 0) THEN Fail("InvalidType", hr)
            ELSE IF h = 10 THEN Ok(NilSlice, hr)
            ELSE IF h = 20 THEN WithRd(getFromCompactObject(s, attribute, tr), hr)
            ELSE IF ~VELOCYPACK_ASSERT(offsetSize > 0) THEN Fail("assert", hr)
            ELSE IF t.err # "nil" THEN WithRd(t, hr)
            ELSE IF n = 1 THEN getSingle(s, h, attribute, tr, rd)
            ELSE IF n >= SortedSearchEntriesThreshold /\ (h >= 11 /\ h <= 14)
                 THEN WithRd(searchObjectKeyBinary(s, attribute, ieBase, n, offsetSize,
                                                   tr), rd)
            ELSE WithRd(searchObjectKeyLinear(s, attribute, ieBase, offsetSize, n, tr),
                        rd)
        table(t) == search(t, t.val[1], t.val[2], Max2(hr, t.rd))
    IN table(objectTable(s, h))

(***************************************************************************)
(* Inputs: the well-formed containers the buffers are encoded from, as the *)
(* Builder lays them out, and short raw buffers.                           *)
(*                                                                         *)
(* A container is [kind, h, off, mem, order, table, raw]: h the head, off  *)
(* the position of the first member, mem the members in storage order,     *)
(* each [name, k, v, good] (k the encoded key, empty for an array; v the   *)
(* encoded value; name the attribute name; good FALSE when k is neither a  *)
(* String nor an integer), order the index table as member numbers, table  *)
(* whether an index table is stored.                                       *)
(***************************************************************************)
MaxMembers == 4
MaxIndex == 5
MaxPosition == 6
MaxRawLen == 3

\* attribute names: "", "a", "ab", "b", "c"
KeyNames == {<<>>, <<97>>, <<97, 98>>, <<98>>, <<99>>}
\* and two names that are no key: "aa", "z"
Attributes == KeyNames \cup {<<97, 97>>, <<122>>}

\* byte-lexicographic order
LexLess(a, b) ==
    \E i \in 1..(Len(a) + 1) :
        /\ \A j \in 1..(i - 1) : j <= Len(b) /\ a[j] = b[j]
        /\ i <= Len(b)
        /\ (i > Len(a) \/ a[i] < b[i])

RECURSIVE Ascending(_)
Ascending(S) ==
    IF S = {} THEN <<>>
    ELSE LET m == CHOOSE x \in S : \A y \in S \ {x} : LexLess(x, y)
         IN <<m>> \o Ascending(S \ {m})

Reverse(q) == [i \in 1..Len(q) |-> q[Len(q) + 1 - i]]

\* the value stored under a name: SmallInt 1, UInt 7, Null, "x", empty Array
ValueOf(name) ==
    IF name = <<>> THEN <<1>>
    ELSE IF name = <<97>> THEN <<49>>
    ELSE IF name = <<97, 98>> THEN <<24>>
    ELSE IF name = <<98>> THEN <<40, 7>>
    ELSE <<65, 120>>

Member(name) ==
    [name |-> name, k |-> StringSlice(name), v |-> ValueOf(name), good |-> TRUE]
\* the same member under the key Null
BadMember(name) ==
    [name |-> name, k |-> <<24>>, v |-> ValueOf(name), good |-> FALSE]
Item(v) == [name |-> <<>>, k |-> <<>>, v |-> v, good |-> TRUE]

Canon == <<<<97>>, <<98>>, <<97, 98>>, <<99>>, <<>>>>

\* storage orders: the names of S ascending and descending
KeyLists ==
    UNION {{Ascending(S), Reverse(Ascending(S))} :
             S \in {T \in SUBSET KeyNames : T # {} /\ Cardinality(T) <= MaxMembers}}

\* the member lists of objects: String keys, and one key replaced by Null in
\* the ascending lists
ObjectMembers ==
    {[i \in 1..Len(q) |-> Member(q[i])] : q \in KeyLists}
    \cup {[i \in 1..Len(q) |-> IF i = j THEN BadMember(q[i]) ELSE Member(q[i])] :
            q \in {Ascending({Canon[i] : i \in 1..n}) : n \in 1..MaxMembers},
            j \in 1..MaxMembers}

ItemValues == <<<<49>>, <<40, 7>>, <<65, 97>>, <<66, 97, 98>>, <<1>>>>

\* the member lists of arrays: n items from ItemValues in rotation, or n equal ones
ArrayMembers ==
    {[i \in 1..n |-> Item(ItemValues[((st + i - 2) % Len(ItemValues)) + 1])] :
        n \in 1..MaxMembers, st \in 1..Len(ItemValues)}
    \cup {[i \in 1..n |-> Item(ItemValues[st])] :
            n \in 1..MaxMembers, st \in 1..Len(ItemValues)}

Identity(n) == [i \in 1..n |-> i]
\* the index table of a sorted object: the members in ascending order of name
SortedOrder(mem) ==
    [i \in 1..Len(mem) |->
        CHOOSE j \in 1..Len(mem) :
            Cardinality({x \in 1..Len(mem) : LexLess(mem[x].name, mem[j].name)}) = i - 1]

memberSize(m) == Len(m.k) + Len(m.v)
AllSameSize(mem) == \A i \in 1..Len(mem) : memberSize(mem[i]) = memberSize(mem[1])

\* the positions where the first member may start
DataOffsets(h) == {p \in {2, 3, 5, 9} : p >= firstSubMap(h)}

Container(kind, h, off, mem, order, table) ==
    [kind |-> kind, h |-> h, off |-> off, mem |-> mem, order |-> order,
     table |-> table, raw |-> <<>>]

Objects ==
    {Container("object", 10, 1, <<>>, <<>>, FALSE)}
    \cup {Container("object", 20, 2, m, Identity(Len(m)), FALSE) : m \in ObjectMembers}
    \cup UNION {{Container("object", h, off, m,
                           IF h <= 14 THEN SortedOrder(m) ELSE Identity(Len(m)), TRUE) :
                   off \in {firstSubMap(h), 9}, m \in ObjectMembers} : h \in 11..18}
    \cup {Container("object", h, firstSubMap(h), m, Identity(1), FALSE) :
            h \in 11..18, m \in {x \in ObjectMembers : Len(x) = 1}}

Arrays ==
    {Container("array", 1, 1, <<>>, <<>>, FALSE)}
    \cup {Container("array", 19, 2, m, Identity(Len(m)), FALSE) : m \in ArrayMembers}
    \cup UNION {{Container("array", h, off, m, Identity(Len(m)), FALSE) :
                   off \in DataOffsets(h), m \in {x \in ArrayMembers : AllSameSize(x)}} :
                 h \in 2..5}
    \cup UNION {{Container("array", h, off, m, Identity(Len(m)), TRUE) :
                   off \in {firstSubMap(h), 9}, m \in ArrayMembers} : h \in 6..9}

RawBytes == {0, 2, 6, 11, 19, 49}
RECURSIVE RawSeqs(_)
RawSeqs(n) ==
    IF n = 0 THEN {<<>>}
    ELSE RawSeqs(n - 1) \cup {Append(q, b) : q \in RawSeqs(n - 1), b \in RawBytes}

\* a Slice is valid iff it is non-empty and ByteSize(slice) <= len(region)
Valid(s) ==
    /\ s # <<>>
    /\ ByteSize(s, 0).err = "nil"
    /\ ByteSize(s, 0).val <= Len(s)

RawInputs ==
    {[kind |-> "raw", h |-> q[1], off |-> 0, mem |-> <<>>, order |-> <<>>,
      table |-> FALSE, raw |-> q] : q \in {x \in RawSeqs(MaxRawLen) : Valid(x)}}

\* ---- the Builder's layout ------------------------------------------------
Zeros(n) == [i \in 1..n |-> 0]
\* v < 256 as a little-endian unsigned of w bytes
Little(v, w) == <<v>> \o Zeros(w - 1)

RECURSIVE Concat(_)
Concat(qs) == IF qs = <<>> THEN <<>> ELSE Head(qs) \o Concat(Tail(qs))

Data(x) == Concat([i \in 1..Len(x.mem) |-> x.mem[i].k \o x.mem[i].v])

RECURSIVE sizeBefore(_, _)
sizeBefore(x, j) == IF j <= 1 THEN 0 ELSE sizeBefore(x, j - 1) + memberSize(x.mem[j - 1])
\* where member j starts, where its value starts, and where it ends
MemberStart(x, j) == x.off + sizeBefore(x, j)
ValueStart(x, j) == MemberStart(x, j) + Len(x.mem[j].k)

Table(x) ==
    IF x.table
    THEN Concat([i \in 1..Len(x.order) |-> Little(MemberStart(x, x.order[i]), widthMap(x.h))])
    ELSE <<>>

Encode(x) ==
    LET w == widthMap(x.h)
        n == Len(x.mem)
        d == Data(x)
        tb == Table(x)
    IN IF x.kind = "raw" THEN x.raw
       ELSE IF x.h \in {1, 10} THEN <<x.h>>
       ELSE IF x.h \in {19, 20} THEN <<x.h, 3 + Len(d)>> \o d \o <<n>>
       ELSE IF x.h \in 2..5
            THEN <<x.h>> \o Little(x.off + Len(d), w) \o Zeros(x.off - 1 - w) \o d
       ELSE IF w < 8
            THEN <<x.h>> \o Little(x.off + Len(d) + Len(tb), w) \o Little(n, w)
                 \o Zeros(x.off - 1 - 2 * w) \o d \o tb
       ELSE <<x.h>> \o Little(x.off + Len(d) + Len(tb) + 8, w) \o Zeros(x.off - 9)
            \o d \o tb \o Little(n, w)

Inputs == Objects \cup Arrays \cup RawInputs

(***************************************************************************)
(* Scalar values: a head, its payload, and bytes of whatever follows the   *)
(* value in the buffer.                                                    *)
(***************************************************************************)
MaxTrailing == 1

Ones(n) == [i \in 1..n |-> 255]
\* payloads of n bytes: the least, the greatest and the sign-changing values
Payloads(n) ==
    {lo \o <<t>> :
        lo \in (IF n = 1 THEN {<<>>}
                ELSE {Zeros(n - 1), Ones(n - 1), <<1>> \o Zeros(n - 2),
                      <<255>> \o Zeros(n - 2)}),
        t \in {0, 1, 127, 128, 255}}
Trailing == {Ones(k) : k \in 0..MaxTrailing}

Scalar(h, payload, trailing) ==
    [kind |-> "scalar", h |-> h, off |-> 0, mem |-> <<>>, order |-> <<>>,
     table |-> FALSE, raw |-> <<h>> \o payload \o trailing]

\* Strings and Binaries of n bytes of data
MaxData == 2
DataBytes(n) == [i \in 1..n |-> 96 + i]

\* the last of each: declared lengths beyond every platform's address limit,
\* 2^63 and 2^64 - 1
Strings ==
    {Scalar(64 + n, DataBytes(n), t) : n \in 0..MaxData, t \in Trailing}
    \cup {Scalar(191, Little(n, 8) \o DataBytes(n), t) : n \in 0..MaxData, t \in Trailing}
    \cup {Scalar(191, l, t) : l \in {Zeros(7) \o <<128>>, Ones(8)}, t \in Trailing}
Binaries ==
    UNION {{Scalar(h, Little(n, h - 191) \o DataBytes(n), t) :
              n \in 0..MaxData, t \in Trailing} : h \in 192..199}
    \cup {Scalar(199, l, t) : l \in {Zeros(7) \o <<128>>, Ones(8)}, t \in Trailing}

\* values of the other types, small containers, and the empty Slice
Others ==
    {Scalar(h, <<>>, t) : h \in {0, 1, 10, 23, 24, 25, 26, 30, 31}, t \in Trailing}
    \cup {Scalar(27, Zeros(6) \o <<240, 63>>, t) : t \in Trailing}
    \cup {Scalar(28, Zeros(8), t) : t \in Trailing}
    \cup {Scalar(200, <<1, 0, 18>>, t) : t \in Trailing}
    \cup {Scalar(244, <<1, 0>>, t) : t \in Trailing}
    \cup {Scalar(2, <<3, 49>>, t) : t \in Trailing}
    \cup {Scalar(19, <<4, 49, 1>>, t) : t \in Trailing}
    \cup {Scalar(11, <<6, 1, 65, 97, 49, 3>>, t) : t \in Trailing}
    \cup {Scalar(20, <<6, 65, 97, 49, 1>>, t) : t \in Trailing}
    \cup {[Scalar(0, <<>>, <<>>) EXCEPT !.raw = <<>>]}

\* Int, UInt and SmallInt values, Strings, Binaries and the others
Scalars ==
    UNION {{Scalar(h, p, t) : p \in Payloads(h - 31), t \in Trailing} : h \in 32..39}
    \cup UNION {{Scalar(h, p, t) : p \in Payloads(h - 39), t \in Trailing} : h \in 40..47}
    \cup {Scalar(h, <<>>, t) : h \in 48..63, t \in Trailing}
    \cup Strings \cup Binaries \cup Others

(***************************************************************************)
(* Objects whose keys are of every kind: Strings, integer keys the         *)
(* translator knows (1 is "a", 2 is "b") or does not know, and keys that   *)
(* are neither.                                                            *)
(***************************************************************************)
MaxKeyed == 2

KeyedMember(k, kind, name, known) ==
    [name |-> name, k |-> k, v |-> <<24>>, good |-> kind = "string",
     kind |-> kind, known |-> known]

RECURSIVE KeyedLists(_)
KeyedLists(n) ==
    LET KeyedMembers ==
            {KeyedMember(<<64>>, "string", <<>>, TRUE),
            KeyedMember(<<65, 97>>, "string", <<97>>, TRUE),
            KeyedMember(<<49>>, "integer", <<97>>, TRUE),
            KeyedMember(<<40, 2>>, "integer", <<98>>, TRUE),
            KeyedMember(<<41, 2, 0>>, "integer", <<98>>, TRUE),
            KeyedMember(<<51>>, "integer", <<>>, FALSE),
            KeyedMember(<<58>>, "integer", <<>>, FALSE),
            KeyedMember(<<32, 1>>, "other", <<>>, FALSE),
            KeyedMember(<<24>>, "other", <<>>, FALSE)}
    IN IF n = 0 THEN {<<>>}
       ELSE KeyedLists(n - 1)
            \cup {Append(q, m) : q \in KeyedLists(n - 1), m \in KeyedMembers}

\* compact objects and unsorted objects with an index table, and sorted objects
\* of one member
KeyedObjects ==
    {Container("object", 20, 2, m, Identity(Len(m)), FALSE) :
        m \in KeyedLists(MaxKeyed) \ {<<>>}}
    \cup {Container("object", 15, 3, m, Identity(Len(m)), TRUE) :
            m \in KeyedLists(MaxKeyed) \ {<<>>}}
    \cup {Container("object", 11, 3, m, Identity(1), TRUE) :
            m \in KeyedLists(1) \ {<<>>}}

(***************************************************************************)
(* The calls.  res records the last call: op its name, arg the index or    *)
(* the attribute, translate the flag of KeyAt and Key, and what it         *)
(* returned.                                                               *)
(***************************************************************************)
\* no search is running
NoSearch ==
    [running |-> FALSE, attribute |-> <<>>, n |-> 0, probes |-> <<>>,
     l |-> 0, r |-> 0, index |-> 0, rd |-> 0, turns |-> 0]

Call(op, arg, translate, r) ==
    [op |-> op, arg |-> arg, translate |-> translate,
     err |-> r.err, val |-> r.val, rd |-> r.rd]

NoCall == Call("none", 0, FALSE, Ok(NilSlice, 0))
\* the caller makes one call at a time; only NoCall has the op of NoCall
Idle == res.op = NoCall.op

Init ==
    /\ assertions \in BOOLEAN
    /\ c \in Inputs
    /\ buf = Encode(c)
    /\ AttributeTranslator = "nil"
    /\ res = NoCall
    /\ it = NoIterator
    /\ nexts = 0
    /\ loop = NoSearch

CallByteSize ==
    /\ Idle
    /\ res' = Call("ByteSize", 0, FALSE, ByteSize(buf, 0))
    /\ UNCHANGED <<c, buf, AttributeTranslator, assertions, loop, it, nexts>>

CallLength ==
    /\ Idle
    /\ res' = Call("Length", 0, FALSE, Length(buf))
    /\ UNCHANGED <<c, buf, AttributeTranslator, assertions, loop, it, nexts>>

CallAt ==
    \E index \in 0..MaxIndex :
        /\ Idle
        /\ res' = Call("At", index, FALSE, At(buf, index))
        /\ UNCHANGED <<c, buf, AttributeTranslator, assertions, loop, it, nexts>>

CallKeyAt ==
    \E index \in 0..MaxIndex, translate \in BOOLEAN :
        /\ Idle
        /\ res' = Call("KeyAt", index, translate,
                       KeyAt(buf, index, translate, AttributeTranslator))
        /\ UNCHANGED <<c, buf, AttributeTranslator, assertions, loop, it, nexts>>

CallValueAt ==
    \E index \in 0..MaxIndex :
        /\ Idle
        /\ res' = Call("ValueAt", index, FALSE, ValueAt(buf, index, AttributeTranslator))
        /\ UNCHANGED <<c, buf, AttributeTranslator, assertions, loop, it, nexts>>

CallGet ==
    \E attribute \in Attributes :
        /\ Idle
        /\ res' = Call("Get", attribute, FALSE, Get(buf, attribute, AttributeTranslator))
        /\ UNCHANGED <<c, buf, AttributeTranslator, assertions, loop, it, nexts>>

\* searchObjectKeyBinary on the index table of a non-compact object, with the
\* ieBase and n that Get computes
CallSearchBinary ==
    \E attribute \in Attributes :
        /\ Idle
        /\ IsObject(buf, 0) /\ head(buf, 0) \notin {10, 20}
        /\ \E t \in {objectTable(buf, head(buf, 0))} :
            /\ t.err = "nil" /\ t.val[1] >= 1
            /\ res' = Call("searchObjectKeyBinary", attribute, FALSE,
                           searchObjectKeyBinary(buf, attribute, t.val[2], t.val[1],
                                                 indexEntrySize(head(buf, 0)),
                                                 AttributeTranslator))
        /\ UNCHANGED <<c, buf, AttributeTranslator, assertions, loop, it, nexts>>

\* findDataOffset on a non-empty, non-compact container
CallFindDataOffset ==
    /\ Idle
    /\ head(buf, 0) \in (2..9) \cup (11..18)
    /\ res' = Call("findDataOffset", 0, FALSE, findDataOffset(buf, head(buf, 0)))
    /\ UNCHANGED <<c, buf, AttributeTranslator, assertions, loop, it, nexts>>

CallNewObjectIterator ==
    \E r \in {NewObjectIterator(buf, AttributeTranslator)} :
        /\ Idle
        /\ res' = [Call("NewObjectIterator", 0, FALSE, r) EXCEPT !.val = NilSlice]
        /\ it' = r.val
        /\ nexts' = 0
        /\ UNCHANGED <<c, buf, AttributeTranslator, assertions, loop>>

CallIterNext ==
    /\ Idle
    /\ it.live
    /\ it.position < MaxPosition
    /\ \E r \in {IterNext(buf, it)} :
        /\ res' = [Call("Iterator.Next", 0, FALSE, r) EXCEPT !.val = NilSlice]
        /\ it' = r.val
    /\ nexts' = nexts + 1
    /\ UNCHANGED <<c, buf, AttributeTranslator, assertions, loop>>

CallIterKey ==
    \E translate \in BOOLEAN :
        /\ Idle
        /\ it.live
        /\ res' = Call("Iterator.Key", 0, translate,
                       Key(buf, it, translate, AttributeTranslator))
        /\ UNCHANGED <<c, buf, AttributeTranslator, assertions, loop, it, nexts>>

CallIterValue ==
    /\ Idle
    /\ it.live
    /\ res' = Call("Iterator.Value", 0, FALSE, Value(buf, it, AttributeTranslator))
    /\ UNCHANGED <<c, buf, AttributeTranslator, assertions, loop, it, nexts>>

\* the caller takes the result of the call
Return ==
    /\ ~Idle
    /\ res' = NoCall
    /\ UNCHANGED <<c, buf, AttributeTranslator, assertions, loop, it, nexts>>

Next ==
    \/ Return
    \/ CallByteSize
    \/ CallLength
    \/ CallAt
    \/ CallKeyAt
    \/ CallValueAt
    \/ CallGet
    \/ CallSearchBinary
    \/ CallFindDataOffset
    \/ CallNewObjectIterator
    \/ CallIterNext
    \/ CallIterKey
    \/ CallIterValue

Spec == Init /\ [][Next]_vars

(***************************************************************************)
(* The calls on a scalar value.                                            *)
(***************************************************************************)
InitScalar ==
    /\ assertions \in BOOLEAN
    /\ c \in Scalars
    /\ buf = c.raw
    /\ AttributeTranslator = "nil"
    /\ res = NoCall
    /\ it = NoIterator
    /\ nexts = 0
    /\ loop = NoSearch

CallGetInt ==
    /\ Idle
    /\ res' = Call("GetInt", 0, FALSE, GetInt(buf, 0))
    /\ UNCHANGED <<c, buf, AttributeTranslator, assertions, loop, it, nexts>>

CallGetUInt ==
    /\ Idle
    /\ res' = Call("GetUInt", 0, FALSE, GetUInt(buf, 0))
    /\ UNCHANGED <<c, buf, AttributeTranslator, assertions, loop, it, nexts>>

CallGetSmallInt ==
    /\ Idle
    /\ res' = Call("GetSmallInt", 0, FALSE, GetSmallInt(buf, 0))
    /\ UNCHANGED <<c, buf, AttributeTranslator, assertions, loop, it, nexts>>

CallGetString ==
    /\ Idle
    /\ res' = Call("GetString", 0, FALSE, GetString(buf, 0))
    /\ UNCHANGED <<c, buf, AttributeTranslator, assertions, loop, it, nexts>>

CallGetStringLength ==
    /\ Idle
    /\ res' = Call("GetStringLength", 0, FALSE, GetStringLength(buf, 0))
    /\ UNCHANGED <<c, buf, AttributeTranslator, assertions, loop, it, nexts>>

CallGetBinary ==
    /\ Idle
    /\ res' = Call("GetBinary", 0, FALSE, GetBinary(buf, 0))
    /\ UNCHANGED <<c, buf, AttributeTranslator, assertions, loop, it, nexts>>

CallGetBinaryLength ==
    /\ Idle
    /\ res' = Call("GetBinaryLength", 0, FALSE, GetBinaryLength(buf, 0))
    /\ UNCHANGED <<c, buf, AttributeTranslator, assertions, loop, it, nexts>>

CallGetBool ==
    /\ Idle
    /\ res' = Call("GetBool", 0, FALSE, GetBool(buf, 0))
    /\ UNCHANGED <<c, buf, AttributeTranslator, assertions, loop, it, nexts>>

NextScalar ==
    \/ Return
    \/ CallByteSize
    \/ CallGetInt
    \/ CallGetUInt
    \/ CallGetSmallInt
    \/ CallGetString
    \/ CallGetStringLength
    \/ CallGetBinary
    \/ CallGetBinaryLength
    \/ CallGetBool
    \/ CallLength
    \/ CallAt
    \/ CallKeyAt
    \/ CallValueAt
    \/ CallGet
    \/ CallNewObjectIterator

SpecScalar == InitScalar /\ [][NextScalar]_vars

(***************************************************************************)
(* The calls that translate keys, with and without a translator.           *)
(***************************************************************************)
InitKeys ==
    /\ assertions \in BOOLEAN
    /\ c \in KeyedObjects
    /\ buf = Encode(c)
    /\ AttributeTranslator \in {"nil", "dict"}
    /\ res = NoCall
    /\ it = NoIterator
    /\ nexts = 0
    /\ loop = NoSearch

\* makeKey on the key of member index of the object
CallMakeKey ==
    \E index \in 0..(MaxKeyed - 1) :
        /\ Idle
        /\ index < Len(c.mem)
        /\ res' = Call("makeKey", index, TRUE,
                       makeKey(buf, MemberStart(c, index + 1), AttributeTranslator))
        /\ UNCHANGED <<c, buf, AttributeTranslator, assertions, loop, it, nexts>>

NextKeys ==
    \/ Return
    \/ CallMakeKey
    \/ CallKeyAt
    \/ CallNewObjectIterator
    \/ CallIterNext
    \/ CallIterKey

SpecKeys == InitKeys /\ [][NextKeys]_vars

(***************************************************************************)
(* searchObjectKeyBinary turn by turn: loop holds its locals, turns counts *)
(* the iterations, probes is what the read and the comparison of each      *)
(* table entry give.  The loop is straight-line code of one goroutine, so  *)
(* a turn that can be taken is taken.                                      *)
(***************************************************************************)
BeginSearch ==
    \E attribute \in Attributes :
        /\ Idle
        /\ ~loop.running
        /\ IsObject(buf, 0) /\ head(buf, 0) \notin {10, 20}
        /\ \E t \in {objectTable(buf, head(buf, 0))} :
            /\ t.err = "nil" /\ t.val[1] >= 1
            /\ loop' = [running |-> TRUE, attribute |-> attribute, n |-> t.val[1],
                        probes |-> [i \in 1..t.val[1] |->
                                      binaryProbe(buf, attribute, t.val[2],
                                                  indexEntrySize(head(buf, 0)),
                                                  AttributeTranslator, i - 1)],
                        l |-> 0, r |-> t.val[1] - 1, index |-> (t.val[1] - 1) \div 2,
                        rd |-> 0, turns |-> 0]
        /\ UNCHANGED <<c, buf, AttributeTranslator, assertions, res, it, nexts>>

SearchTurn ==
    /\ loop.running
    /\ \E t \in {binaryNarrow(loop.probes[loop.index + 1], loop.l, loop.r, loop.index,
                               loop.rd)} :
        IF t.done
        THEN /\ res' = Call("searchObjectKeyBinary", loop.attribute, FALSE, t.out)
             /\ loop' = [loop EXCEPT !.running = FALSE, !.turns = @ + 1]
        ELSE /\ res' = res
             /\ loop' = [loop EXCEPT !.l = t.l, !.r = t.r, !.index = t.index,
                                     !.rd = t.rd, !.turns = @ + 1]
    /\ UNCHANGED <<c, buf, AttributeTranslator, assertions, it, nexts>>

\* the caller takes the result of the search
EndSearch ==
    /\ ~Idle
    /\ ~loop.running
    /\ res' = NoCall
    /\ loop' = NoSearch
    /\ UNCHANGED <<c, buf, AttributeTranslator, assertions, it, nexts>>

NextSearch ==
    \/ BeginSearch
    \/ SearchTurn
    \/ EndSearch

SpecSearch == Init /\ [][NextSearch]_vars /\ WF_vars(SearchTurn)

(***************************************************************************)
(* The ObjectIterator alone: made from any input, moved, and asked for its *)
(* key, its value and its state.  The model stops moving an iterator at    *)
(* position MaxPosition; the uint64 position of the code wraps around only *)
(* after 2^64 calls of Next.                                               *)
(***************************************************************************)
CallIterIsValid ==
    /\ Idle
    /\ it.live
    /\ res' = Call("Iterator.IsValid", 0, FALSE, Ok(IsValid(it), 0))
    /\ UNCHANGED <<c, buf, AttributeTranslator, assertions, loop, it, nexts>>

CallIterIsFirst ==
    /\ Idle
    /\ it.live
    /\ res' = Call("Iterator.IsFirst", 0, FALSE, Ok(IsFirst(it), 0))
    /\ UNCHANGED <<c, buf, AttributeTranslator, assertions, loop, it, nexts>>

NextIterator ==
    \/ Return
    \/ CallNewObjectIterator
    \/ CallIterNext
    \/ CallIterKey
    \/ CallIterValue
    \/ CallIterIsValid
    \/ CallIterIsFirst

SpecIterator == Init /\ [][NextIterator]_vars

(***************************************************************************)
(* Properties.                                                             *)
(***************************************************************************)
NumMembers == Len(c.mem)
Names == {c.mem[j].name : j \in {x \in 1..Len(c.mem) : c.mem[x].good}}
StringKeys == \A j \in 1..Len(c.mem) : c.mem[j].good
WellFormedObject == c.kind = "object"
WellFormedArray == c.kind = "array"

\* C1: on a well-formed non-empty object of any layout whose keys are Strings,
\* Get(k) for k one of its keys returns, without error, the Slice that starts
\* right after that key.
C1_GetReturnsValueOfKey ==
    (res.op = "Get" /\ WellFormedObject /\ StringKeys) =>
        \A j \in 1..NumMembers :
            c.mem[j].name = res.arg =>
                res.err = "nil" /\ res.val = ValueStart(c, j)

\* Get found the key stored first in a padded, sorted 2-byte-wide object of four
\* members stored in descending order (binary search, table order # storage order)
C1_Witness ==
    /\ res.op = "Get" /\ WellFormedObject /\ StringKeys
    /\ c.h = 12 /\ c.off = 9 /\ NumMembers = 4 /\ c.order[1] = 4
    /\ c.mem[1].name = res.arg
    /\ res.err = "nil" /\ res.val = ValueStart(c, 1)

\* C2: on a well-formed object with String keys, Get of a name that is none of
\* its keys returns the None-Slice and a nil error.
C2_GetMissingIsNone ==
    (res.op = "Get" /\ WellFormedObject /\ StringKeys /\ res.arg \notin Names) =>
        res.err = "nil" /\ res.val = NilSlice

\* Get of "aa", which sorts between the keys, on a sorted object of four members
C2_Witness ==
    /\ res.op = "Get" /\ WellFormedObject /\ StringKeys
    /\ c.h = 11 /\ NumMembers = 4 /\ res.arg = <<97, 97>>
    /\ <<97>> \in Names /\ <<97, 98>> \in Names
    /\ res.err = "nil" /\ res.val = NilSlice

\* C3: on a sorted object (heads 0x0b..0x0e) with n >= 1 distinct String keys
\* and a sorted index table, searchObjectKeyBinary and searchObjectKeyLinear
\* return the same result for every attribute.
C3_BinaryEqualsLinear ==
    (res.op = "searchObjectKeyBinary" /\ WellFormedObject /\ StringKeys
     /\ c.h \in 11..14 /\ c.table) =>
        LET t == objectTable(buf, c.h)
            lin == searchObjectKeyLinear(buf, res.arg, t.val[2], indexEntrySize(c.h),
                                         t.val[1], AttributeTranslator)
        IN res.err = lin.err /\ res.val = lin.val

\* the binary search found the key that sorts last in an 8-byte-wide object
C3_Witness ==
    /\ res.op = "searchObjectKeyBinary" /\ WellFormedObject /\ StringKeys
    /\ c.h = 14 /\ c.table /\ NumMembers = 4
    /\ c.mem[c.order[4]].name = res.arg
    /\ res.err = "nil" /\ res.val = ValueStart(c, c.order[4])

\* C4: whatever the layout, when a key of the object is neither a String nor
\* an integer, Get of a name that is no key returns the None-Slice and no error.
C4_InvalidKeyIsNone ==
    (res.op = "Get" /\ WellFormedObject /\ ~StringKeys /\ res.arg \notin Names) =>
        res.err = "nil" /\ res.val = NilSlice

\* C5: At on an array, KeyAt and ValueAt on an object: index-out-of-bounds
\* exactly when the index is >= Length.
C5_IndexOutOfBounds ==
    (res.op \in {"At", "KeyAt", "ValueAt"} /\ c.kind \in {"array", "object"}
     /\ (res.op = "At" <=> c.kind = "array")) =>
        /\ Length(buf).err = "nil"
        /\ (res.arg >= Length(buf).val <=> res.err = "IndexOutOfBounds")

\* ValueAt one past the last member of a padded unsorted 4-byte-wide object
C5_Witness ==
    /\ res.op = "ValueAt" /\ c.kind = "object" /\ c.h = 17 /\ NumMembers = 3
    /\ res.arg = 3 /\ Length(buf).val = 3 /\ res.err = "IndexOutOfBounds"

\* the Slice reached from the Slice at o by i calls of Next
RECURSIVE NextTimes(_, _, _)
NextTimes(s, o, i) ==
    IF i = 0 THEN Ok(o, 0)
    ELSE LET r == NextTimes(s, o, i - 1)
         IN IF r.err # "nil" THEN r ELSE SliceNext(s, r.val)

\* C6: on a well-formed array of any layout, At(i) for i < n starts where i
\* calls of Next from the first member end.
C6_AtEqualsNextSteps ==
    (res.op = "At" /\ WellFormedArray /\ res.arg < NumMembers) =>
        /\ res.err = "nil"
        /\ NextTimes(buf, c.off, res.arg).err = "nil"
        /\ res.val = NextTimes(buf, c.off, res.arg).val

\* At(2) on a padded 2-byte-wide array without index table
C6_Witness ==
    /\ res.op = "At" /\ WellFormedArray /\ c.h = 3 /\ c.off = 9 /\ NumMembers = 3
    /\ res.arg = 2 /\ res.err = "nil" /\ res.val = MemberStart(c, 3)

\* C7 as claimed: on every object, Next(KeyAt(i, false)) is ValueAt(i), and
\* Next(ValueAt(i)) is KeyAt(i + 1, false) when i + 1 < n.
C7_RoundTripAllLayouts ==
    (res.op = "ValueAt" /\ WellFormedObject /\ res.arg < NumMembers) =>
        LET k == KeyAt(buf, res.arg, FALSE, AttributeTranslator)
            k1 == KeyAt(buf, res.arg + 1, FALSE, AttributeTranslator)
        IN /\ res.err = "nil" /\ k.err = "nil"
           /\ SliceNext(buf, k.val) = Ok(res.val, SliceNext(buf, k.val).rd)
           /\ res.arg + 1 < NumMembers =>
                k1.err = "nil" /\ SliceNext(buf, res.val).err = "nil"
                /\ SliceNext(buf, res.val).val = k1.val

\* member i + 1 of the index order is stored right behind member i
StoredConsecutively(i) == c.order[i + 2] = c.order[i + 1] + 1

\* C7 amended: Next(KeyAt(i, false)) is ValueAt(i) on every object; Next(ValueAt(i))
\* is KeyAt(i + 1, false) when i + 1 < n and the member at index i + 1 is stored
\* right behind the member at index i.
C7_RoundTripStorageOrder ==
    (res.op = "ValueAt" /\ WellFormedObject /\ res.arg < NumMembers) =>
        LET k == KeyAt(buf, res.arg, FALSE, AttributeTranslator)
            k1 == KeyAt(buf, res.arg + 1, FALSE, AttributeTranslator)
        IN /\ res.err = "nil" /\ k.err = "nil"
           /\ SliceNext(buf, k.val) = Ok(res.val, SliceNext(buf, k.val).rd)
           /\ (res.arg + 1 < NumMembers /\ StoredConsecutively(res.arg)) =>
                k1.err = "nil" /\ SliceNext(buf, res.val).err = "nil"
                /\ SliceNext(buf, res.val).val = k1.val

\* ValueAt(1) on a sorted object of three members stored in key order
C7_Witness ==
    /\ res.op = "ValueAt" /\ WellFormedObject /\ c.h = 11 /\ NumMembers = 3
    /\ res.arg = 1 /\ StoredConsecutively(1) /\ res.err = "nil"
    /\ SliceNext(buf, res.val).val = MemberStart(c, 3)

\* C8: NewObjectIterator on a non-empty non-compact object succeeds, at
\* position 0 with current the Slice at findDataOffset(head).
C8_IteratorOnIndexedObject ==
    (res.op = "NewObjectIterator" /\ WellFormedObject /\ c.h \in 11..18) =>
        /\ res.err = "nil"
        /\ it.live /\ it.position = 0
        /\ it.current = findDataOffset(buf, c.h).val

\* C9: on a well-formed compact object of n members, after NewObjectIterator and
\* k calls of Next: position = k, IsValid iff k < n, and for k < n Key(false) is
\* KeyAt(k, false) and Value() is ValueAt(k).
C9_CompactIterator ==
    (it.live /\ WellFormedObject /\ c.h = 20) =>
        /\ it.position = nexts
        /\ IsValid(it) <=> nexts < NumMembers
        /\ nexts < NumMembers =>
            /\ Key(buf, it, FALSE, AttributeTranslator).err = "nil"
            /\ Key(buf, it, FALSE, AttributeTranslator).val
                 = KeyAt(buf, nexts, FALSE, AttributeTranslator).val
            /\ Value(buf, it, AttributeTranslator).err = "nil"
            /\ Value(buf, it, AttributeTranslator).val
                 = ValueAt(buf, nexts, AttributeTranslator).val

\* the iterator on the last of four members, and then past the end
C9_Witness ==
    /\ it.live /\ WellFormedObject /\ c.h = 20 /\ NumMembers = 4
    /\ nexts = 3 /\ IsValid(it) /\ it.current = MemberStart(c, 4)

\* the declared size covers the bytes ByteSize reads to find it
SizeFieldWithinSize == ByteSize(buf, 0).rd <= ByteSize(buf, 0).val

\* C10: on a valid Slice (non-empty, ByteSize <= len) ByteSize, Length, At, KeyAt,
\* ValueAt and Get read only positions below ByteSize; stated here for the valid
\* Slices whose declared size covers at least their own size field.
C10_ReadsWithinByteSize ==
    (res.op \in {"ByteSize", "Length", "At", "KeyAt", "ValueAt", "Get"}
     /\ Valid(buf) /\ SizeFieldWithinSize) =>
        res.rd <= ByteSize(buf, 0).val

(***************************************************************************)
(* Integers.                                                               *)
(***************************************************************************)
\* the n payload bytes of the scalar the buffer was made from
Payload(n) == SubSeq(c.raw, 2, 1 + n)
\* the number of payload bytes of an Int head and of a UInt head
IntWidth == c.h - 31
UIntWidth == c.h - 39

Negated(q) ==
    LET low == CHOOSE i \in 1..Len(q) : q[i] # 0 /\ \A j \in 1..(i - 1) : q[j] = 0
    IN [i \in 1..Len(q) |-> IF i < low THEN 0
                            ELSE IF i = low THEN 256 - q[i]
                            ELSE 255 - q[i]]
\* the integer an int64 stands for, as its sign and its magnitude
IntegerOf(v) ==
    IF v[8] < 128 THEN [negative |-> FALSE, magnitude |-> v]
    ELSE [negative |-> TRUE, magnitude |-> Negated(v)]

\* C12: GetInt on a head h in 0x20..0x27 returns the two's-complement value
\* of the n = h - 0x1f payload bytes: with u their little-endian unsigned
\* value, u when u < 2^(8n-1) and u - 2^(8n) otherwise, for every n in 1..8.
C12_GetIntTwosComplement ==
    (c.kind = "scalar" /\ res.op = "GetInt" /\ c.h \in 32..39) =>
        /\ res.err = "nil"
        /\ IntegerOf(res.val) =
              IF Payload(IntWidth)[IntWidth] < 128
              THEN [negative |-> FALSE, magnitude |-> Word(Payload(IntWidth))]
              ELSE [negative |-> TRUE, magnitude |-> Word(Negated(Payload(IntWidth)))]

C12_Witness ==
    /\ c.kind = "scalar"
    /\ res.op = "GetInt"
    /\ c.h = 38
    /\ Payload(7) = <<255, 0, 0, 0, 0, 0, 128>>
    /\ res.err = "nil"
    /\ res.val = <<255, 0, 0, 0, 0, 0, 128, 255>>

\* C13: a head in 0x28..0x2f followed by n = head - 0x27 payload bytes is a
\* UInt of ByteSize 1 + n, and GetUInt returns the little-endian unsigned
\* value of exactly those n bytes, whatever bytes follow them.
C13_UIntPayload ==
    (c.kind = "scalar" /\ c.h \in 40..47) =>
        /\ Type(buf, 0) = "UInt"
        /\ res.op = "ByteSize" => res.err = "nil" /\ res.val = 1 + UIntWidth
        /\ res.op = "GetUInt" => res.err = "nil" /\ res.val = Word(Payload(UIntWidth))

C13_Witness ==
    /\ c.kind = "scalar"
    /\ res.op = "GetUInt"
    /\ buf = <<41, 255, 1, 255>>
    /\ res.err = "nil"
    /\ res.val = <<255, 1, 0, 0, 0, 0, 0, 0>>

(***************************************************************************)
(* Containers.                                                             *)
(***************************************************************************)
\* C14: for every non-compact container head 0x02..0x09 and 0x0b..0x12, the
\* unsorted object heads 0x0f..0x12 included, ByteSize returns, without an
\* error or an assertion failure, the little-endian unsigned of width
\* widthMap[head] at byte 1: the total length of a well-formed container.
C14_ByteSizeOfContainers ==
    (res.op = "ByteSize" /\ c.kind \in {"array", "object"}
                         /\ c.h \in (2..9) \cup (11..18)) =>
        /\ res.err = "nil"
        /\ res.val = leValue(buf, 1, widthMap(c.h))
        /\ res.val = Len(buf)

\* C15: for every well-formed array or object Length returns the number of
\* members: 0 for heads 0x01 and 0x0a, the trailing count of a compact
\* container, (total - dataOffset) / memberByteSize for heads 0x02..0x05, the
\* count field at offset 1 + width for index tables of width 1, 2 or 4, the
\* last 8 bytes for width 8; whatever zero padding precedes the first member.
C15_LengthCountsMembers ==
    (res.op = "Length" /\ c.kind \in {"array", "object"}) =>
        /\ res.err = "nil"
        /\ res.val = NumMembers
        /\ c.h \in {1, 10} => res.val = 0
        /\ c.h \in {19, 20} => res.val = buf[Len(buf)]
        /\ c.h \in 2..5 => res.val = (Len(buf) - c.off) \div memberSize(c.mem[1])
        /\ (c.h \in (6..9) \cup (11..18) /\ widthMap(c.h) < 8) =>
              res.val = leValue(buf, 1 + widthMap(c.h), widthMap(c.h))
        /\ (c.h \in (6..9) \cup (11..18) /\ widthMap(c.h) = 8) =>
              res.val = leValue(buf, Len(buf) - 8, 8)

C15_Witness ==
    /\ res.op = "Length"
    /\ res.err = "nil"
    /\ c.kind = "array"
    /\ c.h = 2
    /\ c.off = 9
    /\ res.val = 3

(***************************************************************************)
(* Key translation.                                                        *)
(***************************************************************************)
\* what the claim says of makeKey on the key of member m, stored at position p
MadeKey(m, p) ==
    IF m.kind = "string" THEN res.err = "nil" /\ res.val = <<"self", p>>
    ELSE IF m.kind = "integer" THEN
         IF AttributeTranslator = "nil" THEN res.err = "NeedAttributeTranslator"
         ELSE /\ res.err = "nil"
              /\ m.known => res.val = <<"translated", StringSlice(m.name)>>
    ELSE res.err = "InvalidType"

DeclaredLength ==
    IF c.h = 191 THEN leValue(c.raw, 1, 8) ELSE leValue(c.raw, 1, c.h - 191)
Oversized == c.kind = "scalar" /\ c.h \in 191..199 /\ DeclaredLength > addressLimit

\* C17: when the declared length of a long String (0xbf) or of a Binary
\* (0xc0..0xc7) exceeds the platform's addressable size, GetString,
\* GetStringLength, GetBinary and GetBinaryLength fail with the overflow error.
C17_OverflowOnOversizedLength ==
    Oversized =>
        /\ (c.h = 191 /\ res.op \in {"GetString", "GetStringLength"}) =>
              res.err = "Overflow"
        /\ (c.h \in 192..199 /\ res.op \in {"GetBinary", "GetBinaryLength"}) =>
              res.err = "Overflow"

(***************************************************************************)
(* Type checks.                                                            *)
(***************************************************************************)
InvalidType == res.err = "InvalidType" /\ res.val = NilSlice

\* C18: every typed operation fails with invalid-type and returns no value
\* when the head is not of a type it accepts: GetBool on a non-Bool,
\* GetInt, GetUInt and GetSmallInt outside 0x20..0x3f, GetString and
\* GetStringLength outside 0x40..0xbf, GetBinary and GetBinaryLength outside
\* 0xc0..0xc7, Length on neither Array nor Object, At on a non-Array, KeyAt,
\* ValueAt, Get and NewObjectIterator on a non-Object; the empty Slice included.
C18_InvalidTypeOnWrongHead ==
    c.kind = "scalar" =>
        /\ (res.op = "GetBool" /\ (buf = <<>> \/ c.h \notin {25, 26})) => InvalidType
        /\ (res.op \in {"GetInt", "GetUInt", "GetSmallInt"}
                /\ (buf = <<>> \/ c.h \notin 32..63)) => InvalidType
        /\ (res.op \in {"GetString", "GetStringLength"}
                /\ (buf = <<>> \/ c.h \notin 64..191)) => InvalidType
        /\ (res.op \in {"GetBinary", "GetBinaryLength"}
                /\ (buf = <<>> \/ c.h \notin 192..199)) => InvalidType
        /\ (res.op = "Length" /\ (buf = <<>> \/ c.h \notin 1..20)) => InvalidType
        /\ (res.op = "At" /\ (buf = <<>> \/ c.h \notin (1..9) \cup {19})) => InvalidType
        /\ (res.op \in {"KeyAt", "ValueAt", "Get", "NewObjectIterator"}
                /\ (buf = <<>> \/ c.h \notin (10..18) \cup {20})) => InvalidType
        /\ (res.op = "NewObjectIterator"
                /\ (buf = <<>> \/ c.h \notin (10..18) \cup {20})) => it = NoIterator

\* KeyAt on the empty Slice
C18_Witness ==
    /\ c.kind = "scalar"
    /\ buf = <<>>
    /\ res.op = "KeyAt"
    /\ res.err = "InvalidType"

(***************************************************************************)
(* Padding.                                                                *)
(***************************************************************************)
\* the positions of {2, 3, 5} not below firstSubMap[head] that hold a nonzero byte
NonzeroCandidates ==
    {p \in {2, 3, 5} : p >= firstSubMap(c.h) /\ p < Len(buf) /\ buf[p + 1] # 0}

\* C19: for every non-empty non-compact container head h, findDataOffset(h)
\* returns the smallest position p of {2, 3, 5, 9} with p >= firstSubMap[h]
\* whose byte is nonzero, and 9 when there is none below 9; the result is
\* never smaller than firstSubMap[h].
C19_FindDataOffset ==
    (res.op = "findDataOffset" /\ c.kind \in {"array", "object"}) =>
        /\ res.err = "nil"
        /\ res.val \in {2, 3, 5, 9}
        /\ res.val >= firstSubMap(c.h)
        /\ \A p \in NonzeroCandidates : res.val <= p
        /\ res.val \in NonzeroCandidates \/ (res.val = 9 /\ NonzeroCandidates = {})
        /\ res.val = c.off

\* an array of 2-byte width whose first member follows two bytes of padding
C19_Witness ==
    /\ res.op = "findDataOffset"
    /\ c.kind = "array"
    /\ c.h = 3
    /\ buf[4] = 0
    /\ res.err = "nil"
    /\ res.val = 5

(***************************************************************************)
(* Termination of the binary search.                                       *)
(***************************************************************************)
\* C20: searchObjectKeyBinary terminates for every n >= 1 and every index
\* table, sorted or not: at every probe l <= index <= r < n (so r = index - 1
\* never wrapped around), every turn that goes on makes the interval [l, r]
\* strictly smaller, the loop makes at most n turns, and it ends.
C20_BinarySearchTerminates ==
    /\ [](loop.running => /\ loop.l <= loop.index
                           /\ loop.index <= loop.r
                           /\ loop.r < loop.n
                           /\ loop.turns < loop.n)
    /\ [](loop.turns <= loop.n)
    /\ [][(loop.running /\ loop'.running) =>
            (loop'.r - loop'.l < loop.r - loop.l)]_vars
    /\ [](loop.running => <>(~loop.running))

\* a search of a four-member table that ends at index 0 with a key greater
\* than the attribute: the turn where r would underflow
C20_Witness ==
    /\ ~loop.running
    /\ res.op = "searchObjectKeyBinary"
    /\ loop.n = 4
    /\ loop.turns = 2
    /\ loop.index = 0
    /\ ~loop.probes[1].done
    /\ loop.probes[1].cmp > 0
    /\ res.err = "nil"
    /\ res.val = NilSlice

(***************************************************************************)
(* The iterator past the end.                                              *)
(***************************************************************************)
\* C21: for every ObjectIterator, the one over an empty object included: once
\* IsValid is false, a call of Next returns no error, leaves current unset,
\* size as it is, and IsValid false; in that state Key and Value return
\* index-out-of-bounds, IsValid returns false, and Key, Value, IsValid and
\* IsFirst change nothing of the iterator.
C21_InvalidStaysInvalid ==
    /\ [][(it.live /\ ~IsValid(it) /\ res'.op = "Iterator.Next") =>
            /\ res'.err = "nil"
            /\ it'.live
            /\ ~IsValid(it')
            /\ it'.current = NilSlice
            /\ it'.size = it.size
            /\ it'.position = it.position + 1]_vars
    /\ []((it.live /\ ~IsValid(it)) =>
            /\ it.current = NilSlice
            /\ res.op \in {"Iterator.Key", "Iterator.Value"} =>
                 (res.err = "IndexOutOfBounds" /\ res.val = NilSlice)
            /\ res.op = "Iterator.IsValid" => res.val = FALSE
            /\ res.op = "Iterator.IsFirst" => (res.val <=> it.position = 0))
    /\ [][(res'.op \in {"Iterator.Key", "Iterator.Value", "Iterator.IsValid",
                        "Iterator.IsFirst"}) => it' = it]_vars

\* an iterator over two members, moved four times, asked for its key
C21_Witness ==
    /\ it.live
    /\ c.h = 20
    /\ it.size = 2
    /\ it.position = 4
    /\ it.current = NilSlice
    /\ res.op = "Iterator.Key"
    /\ res.err = "IndexOutOfBounds"

====
